---- MODULE Spec2Model ----
(***************************************************************************)
(* State-machine model of the supersol_poc agent pipeline.                 *)
(*                                                                         *)
(*   SpecRetry     BaseAgent.execute: the retry loop with backoff          *)
(*   SpecValidate  BaseAgent._validate_schema / _validate_field            *)
(*   SpecExtract   ChatService._extract_state_from_history                 *)
(*   SpecWorkflow  ver0.2 ChatService.process_chat driving                 *)
(*                 AgentManager.execute_workflow and BaseAgent.execute     *)
(*   SpecChat      root ChatService.process_chat (four sequential stages)  *)
(*   SpecSession   SessionManager.save_conversation, concurrent callers    *)
(*   SpecStoreApi  SessionManager / SessionOptimizer calls of one client   *)
(*   SpecCompaction  the optimize_session_file task beside the saves       *)
(*   SpecConfig    agent configurations and the routing built on them      *)
(*                                                                         *)
(* The machines share one variable tuple; a machine that is not the        *)
(* subject of a specification rests in its "off" state, where none of its  *)
(* actions is enabled.  Spec runs the pipelines, the callers and the       *)
(* configurations side by side.                                            *)
(***************************************************************************)
EXTENDS Integers, Sequences, FiniteSets, TLC

VARIABLES
    rPolicy,    \* retry: config.max_retries / retry_delay / retry_delay_max
    rInputOk,   \* retry: does input_data satisfy config.input_format
    rPc,        \* retry: "off" | "loop" | "returned"
    rAttempt,   \* retry: the loop variable `attempt` (0-based)
    rTrace,     \* retry: events of this execute call, in order
    rOutcome,   \* retry: what the caller of execute receives
    vValue,     \* validate: the data dictionary
    vSchema,    \* validate: the schema dictionary
    vPc,        \* validate: "off" | "ready" | "done"
    vError,     \* validate: did _validate_schema raise ValueError
    xHistory,   \* extract: conversation_history handed to the extractor
    xPc,        \* extract: "off" | "ready" | "done"
    xRaised,    \* extract: did _extract_state_from_history raise
    xState,     \* extract: the state dictionary it returned
    wf,         \* workflow (ver0.2): the turn record of process_chat
    wfStack,    \* workflow (ver0.2): call stack of execute_workflow/execute
    wfRet,      \* workflow (ver0.2): value handed back by the last return
    ch,         \* chat (root): the turn record of process_chat
    store,      \* session store: the session file of the one session id
    sMax,       \* session store: SessionManager.max_history
    sProcs,     \* session: the running SessionManager calls, per caller
    sWrites,    \* session: callers in the order their writes reached the file
    files,      \* store API: the session files of session_dir, by session id
    api,        \* store API: the last SessionManager call of the client
    opt,        \* compaction: the optimize_session_file task on the session
    cfg         \* config: agent configurations and the manager built on them

vars == <<rPolicy, rInputOk, rPc, rAttempt, rTrace, rOutcome,
          vValue, vSchema, vPc, vError,
          xHistory, xPc, xRaised, xState,
          wf, wfStack, wfRet, ch,
          store, sMax, sProcs, sWrites, files, api, opt, cfg>>

retryVars == <<rPolicy, rInputOk, rPc, rAttempt, rTrace, rOutcome>>
validateVars == <<vValue, vSchema, vPc, vError>>
extractVars == <<xHistory, xPc, xRaised, xState>>
workflowVars == <<wf, wfStack, wfRet>>
chatVars == <<ch>>
storeVars == <<store, sMax>>
apiVars == <<files, api>>
optVars == <<opt>>
sessionVars == <<sProcs, sWrites, apiVars, optVars>>
configVars == <<cfg>>

Min(a, b) == IF a <= b THEN a ELSE b

RECURSIVE SumSeq(_)
SumSeq(s) == IF s = <<>> THEN 0 ELSE Head(s) + SumSeq(Tail(s))

SelectEvents(trace, kind) == SelectSeq(trace, LAMBDA ev : ev.e = kind)

Get(d, key, default) == IF key \in DOMAIN d THEN d[key] ELSE default

\* A merge in which the earlier stage's value wins a key collision.
MergeResultsFirstWins(current_result, next_result) ==
    [key \in DOMAIN current_result \cup DOMAIN next_result |->
        IF key \in DOMAIN current_result THEN current_result[key]
        ELSE next_result[key]]

\* merged = current_result.copy(); merged.update(next_result)
_merge_results(current_result, next_result) ==
    [key \in DOMAIN current_result \cup DOMAIN next_result |->
        IF key \in DOMAIN next_result THEN next_result[key]
        ELSE current_result[key]]

(***************************************************************************)
(* Bounds of the explored configurations.                                  *)
(***************************************************************************)
MaxRetriesCfg == 3
MaxRetryDelay == 2
MaxRetryDelayMax == 5

(***************************************************************************)
(* Default of AgentConfig.max_retries (used by the pipeline machines).     *)
(***************************************************************************)
max_retries == 3

(***************************************************************************)
(* BaseAgent.execute: retry loop.                                          *)
(***************************************************************************)
NoOutcome == [kind |-> "pending", err |-> 0]

RetryOff ==
    /\ rPolicy = [max_retries |-> 0, retry_delay |-> 0, retry_delay_max |-> 0]
    /\ rInputOk = TRUE
    /\ rPc = "off"
    /\ rAttempt = 0
    /\ rTrace = <<>>
    /\ rOutcome = NoOutcome

RetryPolicies ==
    [max_retries : 0..MaxRetriesCfg,
     retry_delay : 0..MaxRetryDelay,
     retry_delay_max : 0..MaxRetryDelayMax]

\* delay = min(retry_delay * (2 ** attempt), retry_delay_max)
BackoffDelayOffByOne(policy, attempt) ==
    Min(policy.retry_delay * (2 ^ (attempt + 1)), policy.retry_delay_max)

BackoffDelay(policy, attempt) ==
    Min(policy.retry_delay * (2 ^ attempt), policy.retry_delay_max)

\* The except branch of the loop body: sleep and go round, or re-raise.
RetryHandleException(step) ==
    IF rAttempt < rPolicy.max_retries - 1
    THEN /\ rTrace' = rTrace \o
                <<[e |-> "fail", n |-> rAttempt + 1, step |-> step, d |-> 0],
                  [e |-> "sleep", n |-> rAttempt + 1, step |-> "sleep",
                   d |-> BackoffDelay(rPolicy, rAttempt)]>>
         /\ rAttempt' = rAttempt + 1
         /\ UNCHANGED <<rPc, rOutcome>>
    ELSE /\ rTrace' = Append(rTrace,
                [e |-> "fail", n |-> rAttempt + 1, step |-> step, d |-> 0])
         /\ rOutcome' = [kind |-> "error", err |-> rAttempt + 1]
         /\ rPc' = "returned"
         /\ UNCHANGED rAttempt

\* One pass of the loop body in which _validate_input, _process or
\* _validate_output raises.
RetryAttemptRaises ==
    /\ rPc = "loop"
    /\ rAttempt < rPolicy.max_retries
    /\ \E step \in {"validate_input", "process", "validate_output"} :
          /\ (step = "validate_input") <=> ~rInputOk
          /\ RetryHandleException(step)
    /\ UNCHANGED <<rPolicy, rInputOk>>
    /\ UNCHANGED <<validateVars, extractVars, workflowVars, chatVars,
                 storeVars, sessionVars, configVars>>

\* One pass of the loop body that reaches `return validated_output`.
RetryAttemptReturns ==
    /\ rPc = "loop"
    /\ rAttempt < rPolicy.max_retries
    /\ rInputOk
    /\ rTrace' = Append(rTrace,
            [e |-> "ok", n |-> rAttempt + 1, step |-> "process", d |-> 0])
    /\ rOutcome' = [kind |-> "result", err |-> 0]
    /\ rPc' = "returned"
    /\ UNCHANGED <<rPolicy, rInputOk, rAttempt>>
    /\ UNCHANGED <<validateVars, extractVars, workflowVars, chatVars,
                 storeVars, sessionVars, configVars>>

\* range(max_retries) is empty: the function body ends without a return
\* statement and without raising, so the caller receives None.
RetryLoopFallsThrough ==
    /\ rPc = "loop"
    /\ rAttempt >= rPolicy.max_retries
    /\ rOutcome' = [kind |-> "none", err |-> 0]
    /\ rPc' = "returned"
    /\ UNCHANGED <<rPolicy, rInputOk, rAttempt, rTrace>>
    /\ UNCHANGED <<validateVars, extractVars, workflowVars, chatVars,
                 storeVars, sessionVars, configVars>>

(***************************************************************************)
(* BaseAgent._validate_schema / _validate_field.                           *)
(* A Python value is a tagged record: t is its runtime type, items the     *)
(* elements of a list, f the key/value mapping of a dict.  A schema is     *)
(* tagged the same way: a primitive tag ("string", "int", "object"), a     *)
(* list schema with its element schemas, or a dict schema.                 *)
(***************************************************************************)
PyStr == [t |-> "str"]
PyInt == [t |-> "int"]
PyList(items) == [t |-> "list", items |-> items]
PyDict(f) == [t |-> "dict", f |-> f]

SchemaKeys == {"a", "b"}
DictsOver(keys, range) == UNION {[K -> range] : K \in SUBSET keys}

LeafValues == {PyStr, PyInt}
NestedValues ==
    LeafValues
    \cup {PyList(s) : s \in {<<>>} \cup {<<v>> : v \in LeafValues}
                              \cup {<<v, w>> : v, w \in LeafValues}}
    \cup {PyDict(d) : d \in DictsOver(SchemaKeys, LeafValues)}
DataValues ==
    {PyDict(d) : d \in DictsOver({"k"}, NestedValues)}
    \cup {PyDict([key \in {"k", "z"} |-> IF key = "k" THEN v ELSE PyStr]) :
              v \in NestedValues}

LeafSchemas == {[t |-> "string"], [t |-> "int"], [t |-> "object"]}
NestedSchemas ==
    LeafSchemas
    \cup {[t |-> "list", elem |-> <<s>>] : s \in LeafSchemas}
    \cup {[t |-> "dict", f |-> d] : d \in DictsOver(SchemaKeys, LeafSchemas)}
DataSchemas == {[t |-> "dict", f |-> d] : d \in DictsOver({"k"}, NestedSchemas)}

ValidateOff ==
    /\ vValue = PyDict(<<>>)
    /\ vSchema = [t |-> "dict", f |-> <<>>]
    /\ vPc = "off"
    /\ vError = FALSE

\* TRUE iff _validate_field returns without raising ValueError.
RECURSIVE _validate_field(_, _)
_validate_field(value, schema) ==
    IF schema.t = "list"
    THEN /\ value.t = "list"
         /\ Len(schema.elem) > 0 =>
               \A i \in 1..Len(value.items) :
                   _validate_field(value.items[i], schema.elem[1])
    ELSE IF schema.t = "dict"
    THEN /\ value.t = "dict"
         /\ \A key \in DOMAIN value.f :
               key \in DOMAIN schema.f =>
                   _validate_field(value.f[key], schema.f[key])
    ELSE IF schema.t = "string" THEN value.t = "str"
    ELSE IF schema.t = "int" THEN value.t \in {"int", "bool"}
    ELSE IF schema.t = "object" THEN value.t = "dict"
    ELSE TRUE

\* TRUE iff _validate_schema returns without raising ValueError.
_validate_schema(data, schema) ==
    \A field_name \in DOMAIN schema.f :
        /\ field_name \in DOMAIN data.f
        /\ _validate_field(data.f[field_name], schema.f[field_name])

ValidateRun ==
    /\ vPc = "ready"
    /\ vError' = ~_validate_schema(vValue, vSchema)
    /\ vPc' = "done"
    /\ UNCHANGED <<vValue, vSchema>>
    /\ UNCHANGED <<retryVars, extractVars, workflowVars, chatVars,
                 storeVars, sessionVars, configVars>>

(***************************************************************************)
(* ChatService._extract_state_from_history.                                *)
(* JSON values reuse the tagged records above; a string carries its text   *)
(* in s, and the agent_log string carries its lines: each line is a marker *)
(* followed by a payload that json.loads either rejects or parses to v.    *)
(***************************************************************************)
JNull == [t |-> "null"]
JNum == [t |-> "num"]
JStr(s) == [t |-> "str", s |-> s]
LogText(lines) == [t |-> "str", lines |-> lines]
InvalidJson == [j |-> "invalid"]
ValidJson(v) == [j |-> "valid", v |-> v]

DomainMarker == "Domain Agent Output:"
PrepMarker == "Preprocessing Agent Output:"
OtherMarker == "Rewriting Agent Output:"

ZeroState ==
    [selected_account |-> JNull, pending_action |-> JNull,
     missing_slots |-> PyList(<<>>), last_intent |-> JNull,
     last_slots |-> PyList(<<>>)]

SnapshotState ==
    [selected_account |-> JStr("220-9"), pending_action |-> JStr("transfer"),
     missing_slots |-> PyList(<<JStr("amount")>>),
     last_intent |-> JStr("transfer"), last_slots |-> PyList(<<>>)]

ToolOutputs ==
    {PyDict([account_number |-> JStr("110-1")]),
     PyDict([response |-> JStr("ok")]),
     JNull, JNum, JStr("ok"), PyList(<<>>)}
DomainPayloads ==
    {InvalidJson, ValidJson(PyList(<<>>)), ValidJson(PyDict(<<>>))}
    \cup {ValidJson(PyDict([tool_output |-> o])) : o \in ToolOutputs}
PrepPayloads ==
    {InvalidJson, ValidJson(PyList(<<>>)), ValidJson(PyDict(<<>>)),
     ValidJson(PyDict([intent |-> JStr("check_balance"),
                       slot |-> PyList(<<JStr("account")>>)]))}
LogLines ==
    {[marker |-> DomainMarker, payload |-> p] : p \in DomainPayloads}
    \cup {[marker |-> PrepMarker, payload |-> p] : p \in PrepPayloads}
    \cup {[marker |-> OtherMarker, payload |-> ValidJson(PyDict(<<>>))]}
LogTexts ==
    {LogText(<<>>)} \cup {LogText(<<l>>) : l \in LogLines}
    \cup {LogText(<<l, m>>) : l, m \in LogLines}
Snapshots == {PyDict(ZeroState), PyDict(SnapshotState)}
HistoryEntries ==
    {JStr("corrupt"), PyDict(<<>>), PyDict([agent_log |-> JNull])}
    \cup {PyDict([context_snapshot |-> c]) : c \in Snapshots}
    \cup {PyDict([agent_log |-> JNull, context_snapshot |-> c]) :
              c \in Snapshots}
    \cup {PyDict([agent_log |-> g]) : g \in LogTexts}
    \cup {PyDict([agent_log |-> g, context_snapshot |-> c]) :
              g \in LogTexts, c \in Snapshots}
Histories ==
    {<<>>} \cup {<<e>> : e \in HistoryEntries}
    \cup {<<PyDict([agent_log |-> LogText(<<>>)]), e>> : e \in HistoryEntries}

ExtractOff ==
    /\ xHistory = <<>>
    /\ xPc = "off"
    /\ xRaised = "none"
    /\ xState = ZeroState

Returned(state) == [exc |-> "none", state |-> state]
Raised(exc, state) == [exc |-> exc, state |-> state]

\* The markers that occur inside a line's payload: the payload of an Input
\* line serialises the context, whose conversation_history carries the
\* agent_log strings of the earlier turns, JSON-escaped.
Embedded(line) == IF "embedded" \in DOMAIN line THEN line.embedded ELSE {}

\* `marker in agent_log` for a str agent_log.
HasMarker(agent_log, marker) ==
    \E i \in 1..Len(agent_log.lines) :
        \/ agent_log.lines[i].marker = marker
        \/ marker \in Embedded(agent_log.lines[i])

\* agent_log[find(marker) + len(marker) : find("\n", ...)].strip():
\* the rest of the line on which the marker first occurs.  When the first
\* occurrence lies inside a payload, the rest of the line is a fragment of
\* escaped text, which json.loads rejects.
FindPayload(agent_log, marker) ==
    LET Hit(i) == \/ agent_log.lines[i].marker = marker
                  \/ marker \in Embedded(agent_log.lines[i])
        i == CHOOSE i \in 1..Len(agent_log.lines) :
                 Hit(i) /\ \A j \in 1..(i - 1) : ~Hit(j)
    IN  IF agent_log.lines[i].marker = marker
        THEN agent_log.lines[i].payload
        ELSE InvalidJson

\* `key in container` for a container that supports the operator.
PyContains(container, key) ==
    IF container.t = "dict" THEN key \in DOMAIN container.f
    ELSE IF container.t = "list"
    THEN \E i \in 1..Len(container.items) :
             /\ container.items[i].t = "str"
             /\ container.items[i].s = key
    ELSE container.s = key

\* A Domain block that skips a payload json.loads rejects and lets the
\* extraction go on.
ExtractDomainOutputSkipsInvalid(agent_log, state) ==
    IF agent_log.t # "str" THEN Raised("TypeError", state)
    ELSE IF ~HasMarker(agent_log, DomainMarker) THEN Returned(state)
    ELSE LET domain_output_str == FindPayload(agent_log, DomainMarker)
         IN  IF domain_output_str.j = "invalid"
             THEN Returned(state)
             ELSE LET domain_output == domain_output_str.v
                  IN  IF domain_output.t # "dict"
                      THEN Raised("AttributeError", state)
                      ELSE LET tool_output ==
                                   IF "tool_output" \in DOMAIN domain_output.f
                                   THEN domain_output.f["tool_output"]
                                   ELSE PyDict(<<>>)
                           IN  IF tool_output.t \notin {"dict", "list", "str"}
                               THEN Raised("TypeError", state)
                               ELSE IF ~PyContains(tool_output,
                                                   "account_number")
                               THEN Returned(state)
                               ELSE IF tool_output.t # "dict"
                               THEN Raised("TypeError", state)
                               ELSE Returned(
                                      [state EXCEPT !.selected_account =
                                         tool_output.f["account_number"]])

\* The `if "Domain Agent Output:" in agent_log:` block.
ExtractDomainOutput(agent_log, state) ==
    IF agent_log.t # "str" THEN Raised("TypeError", state)
    ELSE IF ~HasMarker(agent_log, DomainMarker) THEN Returned(state)
    ELSE LET domain_output_str == FindPayload(agent_log, DomainMarker)
         IN  IF domain_output_str.j = "invalid"
             THEN Raised("JSONDecodeError", state)
             ELSE LET domain_output == domain_output_str.v
                  IN  IF domain_output.t # "dict"
                      THEN Raised("AttributeError", state)
                      ELSE LET tool_output ==
                                   IF "tool_output" \in DOMAIN domain_output.f
                                   THEN domain_output.f["tool_output"]
                                   ELSE PyDict(<<>>)
                           IN  IF tool_output.t \notin {"dict", "list", "str"}
                               THEN Raised("TypeError", state)
                               ELSE IF ~PyContains(tool_output,
                                                   "account_number")
                               THEN Returned(state)
                               ELSE IF tool_output.t # "dict"
                               THEN Raised("TypeError", state)
                               ELSE Returned(
                                      [state EXCEPT !.selected_account =
                                         tool_output.f["account_number"]])

\* The `if "Preprocessing Agent Output:" in agent_log:` block.
ExtractPrepOutput(agent_log, state) ==
    IF ~HasMarker(agent_log, PrepMarker) THEN Returned(state)
    ELSE LET prep_output_str == FindPayload(agent_log, PrepMarker)
         IN  IF prep_output_str.j = "invalid"
             THEN Raised("JSONDecodeError", state)
             ELSE LET prep_output == prep_output_str.v
                  IN  IF prep_output.t # "dict"
                      THEN Raised("AttributeError", state)
                      ELSE Returned(
                             [state EXCEPT
                                !.last_intent =
                                    IF "intent" \in DOMAIN prep_output.f
                                    THEN prep_output.f["intent"] ELSE JNull,
                                !.last_slots =
                                    IF "slot" \in DOMAIN prep_output.f
                                    THEN prep_output.f["slot"]
                                    ELSE PyList(<<>>)])

\* except (json.JSONDecodeError, KeyError): log a warning, return state.
ExtractExcept(r) ==
    IF r.exc \in {"JSONDecodeError", "KeyError"} THEN Returned(r.state) ELSE r

_extract_state_from_history(conversation_history) ==
    IF conversation_history = <<>> THEN Returned(ZeroState)
    ELSE LET latest_conversation ==
                 conversation_history[Len(conversation_history)]
         IN  IF latest_conversation.t # "dict"
             THEN Raised("AttributeError", ZeroState)
             ELSE LET agent_log ==
                          IF "agent_log" \in DOMAIN latest_conversation.f
                          THEN latest_conversation.f["agent_log"]
                          ELSE LogText(<<>>)
                      d == ExtractDomainOutput(agent_log, ZeroState)
                  IN  IF d.exc # "none" THEN ExtractExcept(d)
                      ELSE ExtractExcept(ExtractPrepOutput(agent_log, d.state))

\* _create_integrated_context calls the extractor on the loaded history.
ExtractRun ==
    /\ xPc = "ready"
    /\ LET r == _extract_state_from_history(xHistory)
       IN  /\ xRaised' = r.exc
           /\ xState' = r.state
    /\ xPc' = "done"
    /\ UNCHANGED xHistory
    /\ UNCHANGED <<retryVars, validateVars, workflowVars, chatVars,
                 storeVars, sessionVars, configVars>>

(***************************************************************************)
(* SessionManager: one JSON file per session.  json.dumps turns a value    *)
(* into JSON text (a tree of objects, arrays and scalars) and json.loads   *)
(* turns the text back into a value.  The timestamp fields of the file     *)
(* (created_at, last_updated) are left out.  An I/O error of a store        *)
(* operation is the exception raised by aiofiles.open, which every         *)
(* SessionManager method catches.                                          *)
(***************************************************************************)
MAX_SESSION_HISTORY == 100
HistoryLimit == 10

JInt(n) == [t |-> "int", n |-> n]

RECURSIVE JsonDumps(_)
JsonDumps(value) ==
    IF value.t = "dict"
    THEN [j |-> "object",
          members |-> [key \in DOMAIN value.f |-> JsonDumps(value.f[key])]]
    ELSE IF value.t = "list"
    THEN [j |-> "array",
          elements |-> [i \in 1..Len(value.items) |->
                            JsonDumps(value.items[i])]]
    ELSE IF value.t = "null" THEN [j |-> "null"]
    ELSE [j |-> "scalar", py |-> value]

RECURSIVE JsonLoads(_)
JsonLoads(text) ==
    IF text.j = "object"
    THEN PyDict([key \in DOMAIN text.members |-> JsonLoads(text.members[key])])
    ELSE IF text.j = "array"
    THEN PyList([i \in 1..Len(text.elements) |-> JsonLoads(text.elements[i])])
    ELSE IF text.j = "null" THEN JNull
    ELSE text.py

\* Python truthiness of a value.
Truthy(value) ==
    CASE value.t = "null" -> FALSE
      [] value.t = "dict" -> DOMAIN value.f # {}
      [] value.t = "list" -> value.items # <<>>
      [] OTHER -> TRUE

\* seq[-n:] for n >= 0; seq[-0:] is seq[0:], the whole sequence.
LastItems(seq, n) ==
    IF n = 0 \/ n >= Len(seq) THEN seq
    ELSE SubSeq(seq, Len(seq) - n + 1, Len(seq))

\* seq[:n], the first n items.
FirstItems(seq, n) == SubSeq(seq, 1, Min(n, Len(seq)))

\* The session id of the machines that work on one session.
TheSession == "A"

\* The customer_info of a request as a JSON value.
CustomerInfoValue(customer_info) ==
    PyDict([key \in DOMAIN customer_info |-> JStr(customer_info[key])])

NoFile == [exists |-> FALSE, text |-> [j |-> "null"]]
FileOf(session_data) == [exists |-> TRUE, text |-> JsonDumps(session_data)]

ZeroContext(depth) ==
    PyDict([selected_account |-> JNull, pending_action |-> JNull,
            missing_slots |-> PyList(<<>>), last_intent |-> JNull,
            last_slots |-> PyList(<<>>), conversation_depth |-> JInt(depth)])

\* The session_data written by create_session; `customer_info or {}`.
NewSessionData(session_id, customer_info) ==
    PyDict([session_id |-> JStr(session_id),
            customer_info |->
                IF Truthy(customer_info) THEN customer_info
                ELSE PyDict(<<>>),
            conversation_history |-> PyList(<<>>),
            current_context |-> ZeroContext(0)])

\* SessionManager.load_session: None for a missing file or an I/O error.
load_session(file, io_ok) ==
    IF ~io_ok \/ ~file.exists THEN JNull
    ELSE LET session_data == JsonLoads(file.text)
         IN  IF "current_context" \in DOMAIN session_data.f
             THEN session_data
             ELSE PyDict(
                    [key \in DOMAIN session_data.f \cup {"current_context"} |->
                        IF key = "current_context"
                        THEN ZeroContext(
                               Len(Get(session_data.f, "conversation_history",
                                       PyList(<<>>)).items))
                        ELSE session_data.f[key]])

\* The conversation_entry of save_conversation.
conversation_entry(user_query, agent_response, agent_log, context) ==
    PyDict([user_query |-> user_query,
            agent_response |-> agent_response,
            agent_log |-> agent_log,
            context_snapshot |->
                IF Truthy(context)
                THEN Get(context.f, "current_state", PyDict(<<>>))
                ELSE PyDict(<<>>)])

\* The current_context that save_conversation derives from the context.
SavedCurrentContext(context) ==
    LET current_state == Get(context.f, "current_state", PyDict(<<>>))
    IN  PyDict([selected_account |->
                    Get(current_state.f, "selected_account", JNull),
                pending_action |->
                    Get(current_state.f, "pending_action", JNull),
                missing_slots |-> Get(context.f, "missing_slots", PyList(<<>>)),
                last_intent |-> Get(context.f, "last_intent", JNull),
                last_slots |-> Get(context.f, "last_slots", PyList(<<>>)),
                conversation_depth |-> Get(context.f, "depth", JInt(0))])

\* history[-max_history:] with the oldest entries kept instead.
CapHistoryKeepOldest(history, max_history) ==
    IF Len(history) > max_history
    THEN FirstItems(history, max_history)
    ELSE history

\* if len(history) > self.max_history: history = history[-self.max_history:]
CapHistory(history, max_history) ==
    IF Len(history) > max_history
    THEN LastItems(history, max_history)
    ELSE history

\* save_conversation between the load and the write: append the entry,
\* replace current_context, cap the history.
SaveUpdate(session_data, entry, context, max_history) ==
    PyDict([key \in DOMAIN session_data.f |->
        IF key = "conversation_history"
        THEN PyList(CapHistory(Append(session_data.f[key].items, entry),
                               max_history))
        ELSE IF key = "current_context" /\ Truthy(context)
        THEN SavedCurrentContext(context)
        ELSE session_data.f[key]])

\* A save_conversation that starts a new record when it finds none.
SaveConversationCreatesRecord(file, max_history, entry_args, context, load_ok, write_ok) ==
    LET loaded == load_session(file, load_ok)
        session_data ==
            IF Truthy(loaded) THEN loaded
            ELSE NewSessionData(TheSession, JNull)
    IN  IF ~write_ok
        THEN [file |-> file, result |-> FALSE]
        ELSE [file |-> FileOf(SaveUpdate(
                          session_data,
                          conversation_entry(entry_args.user_query,
                                             entry_args.agent_response,
                                             entry_args.agent_log, context),
                          context, max_history)),
              result |-> TRUE]

\* SessionManager.save_conversation as one call: the file it leaves and
\* the boolean it returns.
save_conversation(file, max_history, entry_args, context, load_ok, write_ok) ==
    LET session_data == load_session(file, load_ok)
    IN  IF ~Truthy(session_data) \/ ~write_ok
        THEN [file |-> file, result |-> FALSE]
        ELSE [file |-> FileOf(SaveUpdate(
                          session_data,
                          conversation_entry(entry_args.user_query,
                                             entry_args.agent_response,
                                             entry_args.agent_log, context),
                          context, max_history)),
              result |-> TRUE]

\* SessionManager.create_session.
create_session(file, session_id, customer_info, io_ok) ==
    IF io_ok
    THEN [file |-> FileOf(NewSessionData(session_id, customer_info)),
          result |-> TRUE]
    ELSE [file |-> file, result |-> FALSE]

\* A get_conversation_history that hands out the oldest entries.
GetConversationHistoryOldest(file, limit, io_ok) ==
    LET session_data == load_session(file, io_ok)
    IN  IF ~Truthy(session_data) THEN <<>>
        ELSE LET history ==
                     Get(session_data.f, "conversation_history",
                         PyList(<<>>)).items
             IN  IF limit # 0 THEN FirstItems(history, limit) ELSE history

\* SessionManager.get_conversation_history; limit 0 stands for None.
get_conversation_history(file, limit, io_ok) ==
    LET session_data == load_session(file, io_ok)
    IN  IF ~Truthy(session_data) THEN <<>>
        ELSE LET history ==
                     Get(session_data.f, "conversation_history",
                         PyList(<<>>)).items
             IN  IF limit # 0 THEN LastItems(history, limit) ELSE history

\* An update_context that replaces current_context by the updates.
UpdateContextReplaces(file, context_updates, load_ok, write_ok) ==
    LET session_data == load_session(file, load_ok)
    IN  IF ~Truthy(session_data) \/ ~write_ok
        THEN [file |-> file, result |-> FALSE]
        ELSE [file |-> FileOf(PyDict(
                  [key \in DOMAIN session_data.f |->
                      IF key = "current_context"
                      THEN PyDict(context_updates)
                      ELSE session_data.f[key]])),
              result |-> TRUE]

\* SessionManager.update_context.
update_context(file, context_updates, load_ok, write_ok) ==
    LET session_data == load_session(file, load_ok)
    IN  IF ~Truthy(session_data) \/ ~write_ok
        THEN [file |-> file, result |-> FALSE]
        ELSE [file |-> FileOf(PyDict(
                  [key \in DOMAIN session_data.f |->
                      IF key = "current_context"
                      THEN PyDict(_merge_results(session_data.f[key].f,
                                                 context_updates))
                      ELSE session_data.f[key]])),
              result |-> TRUE]

\* SessionManager.get_current_context: None when there is no record.
get_current_context(file, io_ok) ==
    LET session_data == load_session(file, io_ok)
    IN  IF ~Truthy(session_data) THEN JNull
        ELSE Get(session_data.f, "current_context", PyDict(<<>>))

\* SessionManager.clear_context.
clear_context(file, load_ok, write_ok) ==
    LET session_data == load_session(file, load_ok)
    IN  IF ~Truthy(session_data) \/ ~write_ok
        THEN [file |-> file, result |-> FALSE]
        ELSE [file |-> FileOf(PyDict(
                  [key \in DOMAIN session_data.f |->
                      IF key = "current_context" THEN ZeroContext(0)
                      ELSE session_data.f[key]])),
              result |-> TRUE]

\* A delete_session that reports success and leaves the file in place.
DeleteSessionKeepsFile(file, io_ok) ==
    IF file.exists /\ io_ok THEN [file |-> file, result |-> TRUE]
    ELSE [file |-> file, result |-> FALSE]

\* SessionManager.delete_session: os.remove of an existing file.
delete_session(file, io_ok) ==
    IF file.exists /\ io_ok THEN [file |-> NoFile, result |-> TRUE]
    ELSE [file |-> file, result |-> FALSE]

\* SessionOptimizer._compress_session_file: keep the last max_history
\* entries with their agent_log replaced, note the counts, write the file.
_compress_session_file(file, max_history, io_ok) ==
    IF ~io_ok THEN file
    ELSE LET session_data == JsonLoads(file.text)
             conversation_history ==
                 Get(session_data.f, "conversation_history", PyList(<<>>)).items
             compressed_history ==
                 [i \in 1..Len(LastItems(conversation_history, max_history)) |->
                     LET entry == LastItems(conversation_history, max_history)[i]
                     IN  PyDict([key \in DOMAIN entry.f |->
                                    IF key = "agent_log" THEN JStr("[compressed]")
                                    ELSE entry.f[key]])]
         IN  IF Len(conversation_history) > max_history
             THEN FileOf(PyDict(
                    [key \in DOMAIN session_data.f
                              \cup {"conversation_history", "compression_info"} |->
                        IF key = "conversation_history"
                        THEN PyList(compressed_history)
                        ELSE IF key = "compression_info"
                        THEN PyDict([original_count |->
                                         JInt(Len(conversation_history)),
                                     compressed_count |->
                                         JInt(Len(compressed_history))])
                        ELSE session_data.f[key]]))
             ELSE FileOf(session_data)

\* SessionOptimizer._cleanup_old_history: above 80% of max_history keep
\* the last max_history entries and write the file.
_cleanup_old_history(file, max_history, io_ok) ==
    IF ~io_ok THEN file
    ELSE LET session_data == JsonLoads(file.text)
             conversation_history ==
                 Get(session_data.f, "conversation_history", PyList(<<>>)).items
         IN  IF Len(conversation_history) * 10 > max_history * 8
             THEN FileOf(PyDict(
                    [key \in DOMAIN session_data.f \cup {"conversation_history"} |->
                        IF key = "conversation_history"
                        THEN PyList(LastItems(conversation_history, max_history))
                        ELSE session_data.f[key]]))
             ELSE file

\* SessionOptimizer.optimize_session_file; file_size is the class of
\* os.path.getsize: "large" above 10 MB, "medium" above 5 MB.
optimize_session_file(file, file_size, max_history, io_ok) ==
    IF ~file.exists THEN file
    ELSE IF file_size = "large"
    THEN _compress_session_file(file, max_history, io_ok)
    ELSE IF file_size = "medium"
    THEN _cleanup_old_history(file, max_history, io_ok)
    ELSE file

(***************************************************************************)
(* Callers of SessionManager on one session id.  save_conversation awaits  *)
(* the file read and the file write, so another caller's steps can run     *)
(* between its load and its write; nothing in the class takes a lock.      *)
(***************************************************************************)
MaxHistoryCfg == 2
\* save_conversation calls made on the session, all callers together.
MaxSaves == 3

Callers == {1, 2}

SaveContexts ==
    {JNull,
     PyDict([current_state |-> PyDict(SnapshotState),
             missing_slots |-> PyList(<<JStr("amount")>>),
             last_intent |-> JStr("transfer"),
             last_slots |-> PyList(<<>>),
             depth |-> JInt(5)])}

SaveArgs(caller, call) ==
    [user_query |-> JStr(<<"query", caller, call>>),
     agent_response |-> JStr(<<"response", caller, call>>),
     agent_log |-> LogText(<<[marker |-> OtherMarker,
                              payload |-> ValidJson(PyDict(<<>>))]>>)]

IdleCaller ==
    [pc |-> "idle", calls |-> 0, args |-> SaveArgs(0, 0), context |-> JNull,
     session_data |-> JNull, result |-> FALSE, stale |-> FALSE,
     wrote_at |-> 0, got |-> <<>>, got_at |-> 0]

\* The session ids of the store API client.
SessionIds == {"A", "B"}

\* A file path that is the same for every session id.
SharedSessionFilePath(session_id) == <<"sessions", "session", ".json">>

\* SessionManager._get_session_file_path:
\* os.path.join(self.session_dir, f"{session_id}.json").
_get_session_file_path(session_id) == <<"sessions", session_id, ".json">>

SessionPaths == {_get_session_file_path(sid) : sid \in SessionIds}

SessionFile(session_id) == files[_get_session_file_path(session_id)]
FileBefore(session_id) == api.before[_get_session_file_path(session_id)]

\* Turns in flight next to the client's calls, and the context
\* dictionaries they hold by reference; reference 0 is no dictionary.
TurnIds == {1, 2}
ContextRefs == {1, 2}
NoContext == [session_id |-> "none", depth |-> 0, status_history |-> <<>>]
NoContexts == [r \in ContextRefs |-> NoContext]

\* `context = {...}` in _create_integrated_context: a new dictionary.
NewContextRef(contexts) ==
    CHOOSE r \in ContextRefs : contexts[r] = NoContext

ApiIdle(pc) ==
    [pc |-> pc, calls |-> 0, op |-> "none", session_id |-> "none",
     arg |-> JNull, io_ok |-> TRUE, before |-> [path \in SessionPaths |-> NoFile],
     result |-> FALSE, turns |-> [sid \in SessionIds |-> <<>>],
     turn_ref |-> [t \in TurnIds |-> 0], contexts |-> NoContexts,
     before_contexts |-> NoContexts, deleted |-> {}]

ApiOff ==
    /\ files = [path \in SessionPaths |-> NoFile]
    /\ api = ApiIdle("off")

StoreOff == store = NoFile /\ sMax = MAX_SESSION_HISTORY

\* No caller is using the SessionManager on its own.
OffCaller == [IdleCaller EXCEPT !.pc = "off"]

\* The optimize_session_file task: the record it read and the size class
\* os.path.getsize gave.
OptimizerTask(pc) ==
    [pc |-> pc, runs |-> 0, read |-> NoFile, file_size |-> "small"]

OptimizerOff == opt = OptimizerTask("off")

SessionOff ==
    /\ sProcs = [c \in Callers |-> OffCaller]
    /\ sWrites = <<>>
    /\ ApiOff
    /\ OptimizerOff

\* The session_data a write is based on: the one its own load returned.
WriteBaseReread(loaded, file) == JsonLoads(file.text)

WriteBase(loaded, file) == loaded

\* create_session on a session id that has no file yet.
SessionCreate ==
    /\ \A c \in Callers : sProcs[c].pc # "off"
    /\ ~store.exists
    /\ \E io_ok \in BOOLEAN :
           store' = create_session(store, TheSession, JNull, io_ok).file
    /\ UNCHANGED <<sMax, sProcs, sWrites>>
    /\ UNCHANGED <<retryVars, validateVars, extractVars, workflowVars,
                   chatVars, apiVars, optVars, configVars>>

\* save_conversation up to the end of `await self.load_session(...)`;
\* a falsy session_data returns False at once.
SaveLoad(c) ==
    /\ sProcs[c].pc = "idle"
    /\ sProcs[1].calls + sProcs[2].calls < MaxSaves
    /\ \E io_ok \in BOOLEAN, context \in SaveContexts :
         LET session_data == load_session(store, io_ok)
             started == [sProcs[c] EXCEPT
                           !.calls = @ + 1,
                           !.args = SaveArgs(c, sProcs[c].calls + 1),
                           !.context = context,
                           !.session_data = session_data,
                           !.stale = FALSE,
                           !.wrote_at = 0,
                           !.got = <<>>,
                           !.got_at = 0]
         IN  sProcs' = [sProcs EXCEPT ![c] =
                 IF Truthy(session_data)
                 THEN [started EXCEPT !.pc = "loaded"]
                 ELSE [started EXCEPT !.pc = "idle", !.result = FALSE]]
    /\ UNCHANGED <<store, sMax, sWrites>>
    /\ UNCHANGED <<retryVars, validateVars, extractVars, workflowVars,
                   chatVars, apiVars, optVars, configVars>>

\* save_conversation from the append to its return: the entry is added to
\* the loaded session_data, the history is capped and the file is written.
SaveWrite(c) ==
    /\ sProcs[c].pc = "loaded"
    /\ \E io_ok \in BOOLEAN :
         LET p == sProcs[c]
             entry == conversation_entry(p.args.user_query,
                                         p.args.agent_response,
                                         p.args.agent_log, p.context)
             base == WriteBase(p.session_data, store)
         IN  IF io_ok
             THEN /\ store' = FileOf(SaveUpdate(base, entry, p.context, sMax))
                  /\ sWrites' = Append(sWrites, entry)
                  /\ sProcs' = [sProcs EXCEPT ![c] =
                        [p EXCEPT !.pc = "saved",
                                  !.result = TRUE,
                                  !.stale = (p.session_data
                                                # JsonLoads(store.text)),
                                  !.wrote_at = Len(sWrites) + 1]]
             ELSE /\ sProcs' = [sProcs EXCEPT ![c] =
                        [p EXCEPT !.pc = "idle", !.result = FALSE]]
                  /\ UNCHANGED <<store, sWrites>>
    /\ UNCHANGED sMax
    /\ UNCHANGED <<retryVars, validateVars, extractVars, workflowVars,
                   chatVars, apiVars, optVars, configVars>>

\* get_conversation_history(session_id) called after a successful save.
SessionGetHistory(c) ==
    /\ sProcs[c].pc = "saved"
    /\ sProcs' = [sProcs EXCEPT ![c] =
          [@ EXCEPT !.pc = "idle",
                    !.got = get_conversation_history(store, 0, TRUE),
                    !.got_at = Len(sWrites)]]
    /\ UNCHANGED <<store, sMax, sWrites>>
    /\ UNCHANGED <<retryVars, validateVars, extractVars, workflowVars,
                   chatVars, apiVars, optVars, configVars>>

SaveLoadStep == \E c \in Callers : SaveLoad(c)
SaveWriteStep == \E c \in Callers : SaveWrite(c)
SessionGetHistoryStep == \E c \in Callers : SessionGetHistory(c)

(***************************************************************************)
(* The background task of a turn, SessionOptimizer.optimize_session_file,  *)
(* next to the save_conversation calls on the same session.  The helpers   *)
(* await the file read and the file write, so a save_conversation can run  *)
(* between the two; the optimizer takes no lock either.  One caller, the   *)
(* turns of the session, saves.                                            *)
(***************************************************************************)
MaxOptimizeRuns == 2

FileSizes == {"small", "medium", "large"}

\* Does the helper chosen by the size class write the file back:
\* _compress_session_file always, _cleanup_old_history above 80% of
\* max_history.
OptimizerWrites(file, file_size, max_history) ==
    \/ file_size = "large"
    \/ /\ file_size = "medium"
       /\ Len(Get(JsonLoads(file.text).f, "conversation_history",
                  PyList(<<>>)).items) * 10 > max_history * 8

\* optimize_session_file up to the end of the helper's `await f.read()`:
\* the existence test, os.path.getsize, the open and the read.  A small
\* file, and a read that raises, end the task.
OptimizeRead ==
    /\ opt.pc = "idle"
    /\ opt.runs < MaxOptimizeRuns
    /\ store.exists
    /\ \E file_size \in FileSizes, io_ok \in BOOLEAN :
         opt' = [opt EXCEPT
                   !.runs = @ + 1,
                   !.file_size = file_size,
                   !.read = IF io_ok THEN store ELSE NoFile,
                   !.pc = IF file_size # "small" /\ io_ok THEN "loaded"
                          ELSE "idle"]
    /\ UNCHANGED <<storeVars, sProcs, sWrites, apiVars>>
    /\ UNCHANGED <<retryVars, validateVars, extractVars, workflowVars,
                   chatVars, configVars>>

\* The helper from json.loads to its return: the history of the record it
\* read is trimmed and the record is written over the file.
OptimizeWrite ==
    /\ opt.pc = "loaded"
    /\ \E io_ok \in BOOLEAN :
         /\ store' =
               IF io_ok /\ OptimizerWrites(opt.read, opt.file_size, sMax)
               THEN optimize_session_file(opt.read, opt.file_size, sMax, TRUE)
               ELSE store
         /\ opt' = [opt EXCEPT !.pc = "idle"]
    /\ UNCHANGED <<sMax, sProcs, sWrites, apiVars>>
    /\ UNCHANGED <<retryVars, validateVars, extractVars, workflowVars,
                   chatVars, configVars>>

(***************************************************************************)
(* One client calling SessionManager and SessionOptimizer, one call after  *)
(* the other, on the sessions of session_dir.  Every call is a whole       *)
(* method; _get_session_file_path maps a session id to its own file.       *)
(***************************************************************************)
MaxApiCalls == 2
MaxLimit == 3

KimInfo == PyDict([name |-> JStr("Kim"), id |-> JStr("CUST001")])
CustomerInfoArgs == {JNull, PyDict(<<>>), KimInfo}

FullContext == CHOOSE context \in SaveContexts : Truthy(context)

ContextUpdates ==
    {[last_intent |-> JStr("balance")],
     [pending_action |-> JNull, note |-> JStr("callback")]}

\* (load succeeds, write succeeds) of a method that loads and then writes.
IoOutcomes == {<<TRUE, TRUE>>, <<FALSE, TRUE>>, <<TRUE, FALSE>>}

\* The turns a session holds when the client starts: none saved yet, or
\* two turns saved after create_session.
SeedTurns(session_id) ==
    <<conversation_entry(SaveArgs(session_id, -1).user_query,
                         SaveArgs(session_id, -1).agent_response,
                         SaveArgs(session_id, -1).agent_log, FullContext),
      conversation_entry(SaveArgs(session_id, 0).user_query,
                         SaveArgs(session_id, 0).agent_response,
                         SaveArgs(session_id, 0).agent_log, JNull)>>

SeedFile(session_id) ==
    save_conversation(
        save_conversation(
            create_session(NoFile, session_id, KimInfo, TRUE).file,
            MAX_SESSION_HISTORY, SaveArgs(session_id, -1), FullContext,
            TRUE, TRUE).file,
        MAX_SESSION_HISTORY, SaveArgs(session_id, 0), JNull, TRUE, TRUE).file

\* The record of a finished call.
ApiCalled(op, session_id, arg, io_ok, result, turns) ==
    [api EXCEPT !.calls = @ + 1, !.op = op,
                !.session_id = session_id, !.arg = arg, !.io_ok = io_ok,
                !.before = files, !.before_contexts = api.contexts,
                !.result = result,
                !.turns = [@ EXCEPT ![session_id] = turns]]

ApiReady == api.pc = "run" /\ api.calls < MaxApiCalls

ApiFrame ==
    /\ UNCHANGED <<retryVars, validateVars, extractVars, workflowVars,
                   chatVars, storeVars, sProcs, sWrites, optVars,
                   configVars>>

ApiCreateSession ==
    /\ ApiReady
    /\ \E session_id \in SessionIds, customer_info \in CustomerInfoArgs,
          io_ok \in BOOLEAN :
         LET r == create_session(SessionFile(session_id), session_id,
                                 customer_info, io_ok)
         IN  /\ files' = [files EXCEPT ![_get_session_file_path(session_id)] = r.file]
             /\ api' = [ApiCalled("create_session", session_id, customer_info,
                                  io_ok, r.result,
                                  IF r.result THEN <<>>
                                  ELSE api.turns[session_id])
                          EXCEPT !.deleted =
                                     IF r.result THEN @ \ {session_id}
                                     ELSE @]
    /\ ApiFrame

ApiDeleteSession ==
    /\ ApiReady
    /\ \E session_id \in SessionIds, io_ok \in BOOLEAN :
         LET r == delete_session(SessionFile(session_id), io_ok)
         IN  /\ files' = [files EXCEPT ![_get_session_file_path(session_id)] = r.file]
             /\ api' = [ApiCalled("delete_session", session_id, JNull, io_ok,
                                  r.result,
                                  IF r.result THEN <<>>
                                  ELSE api.turns[session_id])
                          EXCEPT !.deleted =
                                     IF r.result THEN @ \cup {session_id}
                                     ELSE @]
    /\ ApiFrame

ApiSaveConversation ==
    /\ ApiReady
    /\ \E session_id \in SessionIds, context \in SaveContexts,
          io \in IoOutcomes :
         LET args == SaveArgs(session_id, api.calls + 1)
             r == save_conversation(SessionFile(session_id), sMax, args, context,
                                    io[1], io[2])
         IN  /\ files' = [files EXCEPT ![_get_session_file_path(session_id)] = r.file]
             /\ api' = ApiCalled("save_conversation", session_id, context,
                                 io[1] /\ io[2], r.result,
                                 IF r.result
                                 THEN Append(api.turns[session_id],
                                             conversation_entry(
                                                 args.user_query,
                                                 args.agent_response,
                                                 args.agent_log, context))
                                 ELSE api.turns[session_id])
    /\ ApiFrame

ApiGetConversationHistory ==
    /\ ApiReady
    /\ \E session_id \in SessionIds, limit \in 0..MaxLimit, io_ok \in BOOLEAN :
         api' = ApiCalled("get_conversation_history", session_id, limit, io_ok,
                          get_conversation_history(SessionFile(session_id), limit,
                                                   io_ok),
                          api.turns[session_id])
    /\ UNCHANGED files
    /\ ApiFrame

ApiUpdateContext ==
    /\ ApiReady
    /\ \E session_id \in SessionIds, context_updates \in ContextUpdates,
          io \in IoOutcomes :
         LET r == update_context(SessionFile(session_id), context_updates,
                                 io[1], io[2])
         IN  /\ files' = [files EXCEPT ![_get_session_file_path(session_id)] = r.file]
             /\ api' = ApiCalled("update_context", session_id,
                                 context_updates, io[1] /\ io[2], r.result,
                                 api.turns[session_id])
    /\ ApiFrame

ApiClearContext ==
    /\ ApiReady
    /\ \E session_id \in SessionIds, io \in IoOutcomes :
         LET r == clear_context(SessionFile(session_id), io[1], io[2])
         IN  /\ files' = [files EXCEPT ![_get_session_file_path(session_id)] = r.file]
             /\ api' = ApiCalled("clear_context", session_id, JNull,
                                 io[1] /\ io[2], r.result,
                                 api.turns[session_id])
    /\ ApiFrame

ApiOptimizeSessionFile ==
    /\ ApiReady
    /\ \E session_id \in SessionIds, file_size \in FileSizes,
          io_ok \in BOOLEAN :
         /\ files' = [files EXCEPT ![_get_session_file_path(session_id)] =
                          optimize_session_file(SessionFile(session_id), file_size,
                                                sMax, io_ok)]
         /\ api' = ApiCalled("optimize_session_file", session_id, file_size,
                             io_ok, TRUE,
                             api.turns[session_id])
    /\ ApiFrame

\* process_chat up to the end of _create_integrated_context: the turn
\* reads the history of its session and builds its context dictionary.
ApiTurnStart ==
    /\ ApiReady
    /\ \E t \in TurnIds, session_id \in SessionIds :
         /\ api.turn_ref[t] = 0
         /\ LET r == NewContextRef(api.contexts)
                 conversation_history ==
                     get_conversation_history(SessionFile(session_id),
                                              HistoryLimit, TRUE)
             IN  api' = [ApiCalled("process_chat", session_id, t, TRUE, TRUE,
                                   api.turns[session_id]) EXCEPT
                           !.turn_ref[t] = r,
                           !.contexts[r] =
                               [session_id |-> session_id,
                                depth |-> Len(conversation_history),
                                status_history |-> <<>>]]
    /\ UNCHANGED files
    /\ ApiFrame

\* SupervisorAgent._update_context / DomainAgent._update_context called
\* with the context of a turn: the shared agent appends to the dictionary
\* it was handed.
ApiTurnUpdateContext ==
    /\ ApiReady
    /\ \E t \in TurnIds :
         /\ api.turn_ref[t] # 0
         /\ LET r == api.turn_ref[t]
                 session_id == api.contexts[r].session_id
             IN  api' = [ApiCalled("_update_context", session_id, t, TRUE,
                                   TRUE, api.turns[session_id]) EXCEPT
                           !.contexts[r].status_history =
                               Append(@, "supervisor_processing")]
    /\ UNCHANGED files
    /\ ApiFrame

\* The messages process_chat yields besides the response chunks.
CompleteMessageAsChunk == [type |-> "response", content |-> ""]

CompleteMessage == [type |-> "complete", content |-> ""]
ErrorMessage == [type |-> "error", content |-> "error_response"]

\* Does _extract_info_from_log raise on this agent_log.
InfoRaises(agent_log) ==
    IF agent_log.t # "str" THEN TRUE
    ELSE LET p == ExtractExcept(ExtractPrepOutput(agent_log, ZeroState))
         IN  IF p.exc # "none" THEN TRUE
             ELSE ExtractExcept(
                      ExtractDomainOutput(agent_log, ZeroState)).exc # "none"

\* Does _enrich_conversation_history raise on this history.
EnrichRaises(conversation_history) ==
    \E i \in 1..Len(conversation_history) :
        \/ conversation_history[i].t # "dict"
        \/ InfoRaises(Get(conversation_history[i].f, "agent_log",
                          LogText(<<>>)))

\* ChatService._create_integrated_context.
_create_integrated_context(conversation_history) ==
    LET r == _extract_state_from_history(conversation_history)
    IN  IF r.exc # "none" \/ EnrichRaises(conversation_history)
        THEN [raised |-> TRUE, context |-> <<>>]
        ELSE [raised |-> FALSE,
              context |->
                  [current_state |-> PyDict(r.state),
                   missing_slots |-> r.state.missing_slots,
                   pending_action |-> r.state.pending_action,
                   selected_account |-> r.state.selected_account,
                   last_intent |-> r.state.last_intent,
                   last_slots |-> r.state.last_slots,
                   depth |-> JInt(Len(conversation_history))]]

(***************************************************************************)
(* ver0.2 pipeline: ChatService.process_chat, AgentManager.execute_workflow *)
(* and BaseAgent.execute with its next-agent call.                         *)
(* A result dictionary is a function from keys to values; {} is <<>>.  A   *)
(* text is a sequence of pieces, so that formatting and streaming act on   *)
(* it piece by piece; the empty string is <<>>.                            *)
(***************************************************************************)
MaxLlmFailures == 6

StageSet == {"rewriting", "preprocessing", "supervisor", "domain"}
StageOrder ==
    [rewriting |-> 1, preprocessing |-> 2, supervisor |-> 3, domain |-> 4]
LaterStages(a) == {b \in StageSet : StageOrder[b] > StageOrder[a]}

\* config.next_agent of each agent configuration.
NextAgentNames(a) ==
    CASE a = "rewriting" -> <<"preprocessing">>
      [] a = "preprocessing" -> <<"supervisor">>
      [] a = "supervisor" -> <<"domain">>
      [] OTHER -> <<>>

NoReturn == [kind |-> "none", v |-> <<>>]
ReturnValue(v) == [kind |-> "value", v |-> v]
RaiseError == [kind |-> "raise", v |-> <<>>]

CustomerInfos == {<<>>, [name |-> "Kim"]}

DirectFallbackText == <<"not-a-banking-question apology">>
DirectErrorText == <<"direct-answer-error apology">>
DirectBlankText == <<"answer-generation-error apology">>
GeneralInquiryText == <<"general inquiry answer">>

\* AgentManager.get_next_agent with the skip flag ignored.
get_next_agent_ignoring_skip(current_agent, result) ==
    IF NextAgentNames(current_agent) = <<>> THEN "none"
    ELSE IF NextAgentNames(current_agent)[1] \in StageSet
    THEN NextAgentNames(current_agent)[1]
    ELSE "none"

\* AgentManager.get_next_agent: "none" stands for None.
get_next_agent(current_agent, result) ==
    IF Get(result, "should_skip_next_agent", FALSE) THEN "none"
    ELSE IF NextAgentNames(current_agent) = <<>> THEN "none"
    ELSE IF NextAgentNames(current_agent)[1] \in StageSet
    THEN NextAgentNames(current_agent)[1]
    ELSE "none"

\* AgentManager._prepare_next_agent_input.
ManagerPrepareNextAgentInput(current_agent_name, current_result, original_input) ==
    CASE current_agent_name = "rewriting" ->
           [rewritten_text |-> Get(current_result, "rewritten_text", <<>>),
            topic |-> Get(current_result, "topic", ""),
            conversation_context |-> Get(original_input, "conversation_context", <<>>),
            current_state |-> Get(original_input, "current_state", <<>>)]
      [] current_agent_name = "preprocessing" ->
           [normalized_text |-> Get(current_result, "normalized_text", <<>>),
            intent |-> Get(current_result, "intent", ""),
            slot |-> Get(current_result, "slot", <<>>),
            conversation_context |-> Get(original_input, "conversation_context", <<>>),
            current_state |-> Get(original_input, "current_state", <<>>)]
      [] current_agent_name = "supervisor" ->
           [target_domain |-> Get(current_result, "target_domain", ""),
            normalized_text |-> Get(current_result, "normalized_text", <<>>),
            intent |-> Get(current_result, "intent", ""),
            slot |-> Get(current_result, "slot", <<>>),
            context |-> Get(original_input, "context", "empty")]
      [] OTHER -> current_result

\* The agents' overrides of BaseAgent._prepare_next_agent_input.
AgentPrepareNextAgentInput(agent, current_result, original_input) ==
    CASE agent = "rewriting" ->
           [rewritten_text |-> Get(current_result, "rewritten_text", <<>>),
            topic |-> Get(current_result, "topic", ""),
            conversation_context |-> Get(original_input, "conversation_context", <<>>),
            current_state |-> Get(original_input, "current_state", <<>>)]
      [] agent = "preprocessing" ->
           [normalized_text |-> Get(current_result, "normalized_text", <<>>),
            intent |-> Get(current_result, "intent", ""),
            slot |-> Get(current_result, "slot", <<>>),
            conversation_context |-> Get(original_input, "conversation_context", <<>>),
            current_state |-> Get(original_input, "current_state", <<>>)]
      [] agent = "supervisor" ->
           [target_domain |-> Get(current_result, "target_domain", ""),
            normalized_text |-> Get(current_result, "normalized_text", <<>>),
            intent |-> Get(current_result, "intent", ""),
            slot |-> Get(current_result, "slot", <<>>),
            context |-> Get(current_result, "context", "empty")]
      [] OTHER -> <<>>

\* What the language model may answer to each agent's prompt.
LlmResponses(agent) ==
    IF agent = "rewriting"
    THEN {[kind |-> "unparseable"]}
         \cup {[kind |-> "json", rewritten_text |-> rt, topic |-> tp,
                context_used |-> TRUE,
                is_general |-> g, direct_response |-> dr] :
                  rt \in {<<>>, <<"rewritten query">>},
                  tp \in {"general", "account"},
                  g \in BOOLEAN,
                  dr \in {<<>>, <<"llm direct answer">>}}
    ELSE {[kind |-> "json"]}

\* RewritingAgent._create_default_response.
_create_default_response(input_data, topic) ==
    [rewritten_text |->
        IF Get(input_data, "query", <<>>) # <<>> THEN input_data["query"]
        ELSE <<"question not understood">>,
     topic |-> IF topic # "" THEN topic ELSE "general",
     context_used |-> FALSE]

\* RewritingAgent._parse_json_response.
_parse_json_response(response, input_data) ==
    IF response.kind = "unparseable"
    THEN _create_default_response(input_data, "")
    ELSE IF response.rewritten_text = <<>>
    THEN _create_default_response(input_data, response.topic)
    ELSE [rewritten_text |-> response.rewritten_text,
          topic |-> response.topic,
          context_used |-> response.context_used,
          is_general |-> response.is_general,
          direct_response |-> response.direct_response]

\* RewritingAgent._generate_direct_response: the second model call.
RewritingGenerateDirectResponse(direct_llm) ==
    IF direct_llm = "ok" THEN <<"generated direct answer">>
    ELSE DirectErrorText

\* A routing that looks at the topic only and ignores is_general.
HandleConditionalRoutingTopicOnly(result, response_prompt, direct_llm) ==
    IF Get(result, "topic", "general") = "general"
    THEN _merge_results(result,
            [direct_response |->
                 IF response_prompt
                 THEN RewritingGenerateDirectResponse(direct_llm)
                 ELSE DirectFallbackText,
             should_skip_next_agent |-> TRUE])
    ELSE result

\* RewritingAgent._handle_conditional_routing.
_handle_conditional_routing(result, response_prompt, direct_llm) ==
    IF Get(result, "topic", "general") = "general"
       \/ Get(result, "is_general", FALSE)
    THEN _merge_results(result,
            [direct_response |->
                 IF response_prompt
                 THEN RewritingGenerateDirectResponse(direct_llm)
                 ELSE DirectFallbackText,
             should_skip_next_agent |-> TRUE])
    ELSE result

\* The _process method of each agent, given the model's answer.
_process(agent, input_data, response, response_prompt, direct_llm) ==
    CASE agent = "rewriting" ->
           _handle_conditional_routing(
               _parse_json_response(response, input_data),
               response_prompt, direct_llm)
      [] agent = "preprocessing" ->
           [normalized_text |-> <<"normalized query">>,
            intent |-> "check_balance",
            slot |-> <<"account">>,
            context_used |-> FALSE]
      [] agent = "supervisor" ->
           [target_domain |-> "account",
            normalized_text |-> Get(input_data, "normalized_text", <<>>),
            intent |-> Get(input_data, "intent", ""),
            slot |-> Get(input_data, "slot", <<>>),
            context |-> "context",
            routing_reasoning |-> "reasoning"]
      [] OTHER ->
           [tool_name |-> "account_balance",
            tool_input |-> <<>>,
            tool_output |-> [status |-> "success",
                             tool_name |-> "account_balance"],
            context |-> "context",
            enhanced_slots |-> Get(input_data, "slot", <<>>)]

\* SupervisorAgent._update_context / DomainAgent._update_context append to
\* the shared context before the model is called.
UpdateContextHistory(agent, input_data, status_history) ==
    IF agent \in {"supervisor", "domain"}
    THEN Append(status_history, <<agent, Get(input_data, "intent", "unknown")>>)
    ELSE status_history

\* ResponseGenerator._generate_direct_response with the default generator's
\* customer-name prefix.
_generate_direct_response_prefixed(tool_output, customer_name) ==
    IF customer_name # "customer"
    THEN <<customer_name, "nim, ">> \o Get(tool_output, "response", <<>>)
    ELSE Get(tool_output, "response", <<>>)

\* ResponseGenerator._generate_direct_response.
_generate_direct_response(tool_output, customer_name) ==
    IF Get(tool_output, "response", <<>>) # <<>>
    THEN tool_output["response"]
    ELSE DirectBlankText

\* ResponseGenerator._generate_account_balance_response.
_generate_account_balance_response(tool_output, customer_name, selected_account) ==
    LET balance == Get(tool_output, "balance", "unknown")
        account_number ==
            Get(tool_output, "account_number",
                IF selected_account # "none" THEN selected_account
                ELSE "current account")
    IN  IF customer_name # "customer"
        THEN <<customer_name, "nim, ", account_number, "balance is",
               balance>>
        ELSE <<account_number, "balance is", balance>>

\* ResponseGenerator._generate_default_response.
_generate_default_response(tool_output, customer_name) ==
    LET response == Get(tool_output, "response", <<"str(tool_output)">>)
    IN  IF customer_name # "customer"
        THEN <<customer_name, "nim, ">> \o response
        ELSE response

\* ResponseGenerator.generate_response.
generate_response(tool_name, tool_output, customer_info, selected_account) ==
    LET customer_name == Get(customer_info, "name", "customer")
    IN  CASE tool_name = "direct_response" ->
               _generate_direct_response(tool_output, customer_name)
          [] tool_name = "account_balance" ->
               _generate_account_balance_response(tool_output, customer_name,
                                                  selected_account)
          [] OTHER -> _generate_default_response(tool_output, customer_name)

ZeroCalls == [a \in StageSet |-> 0]
NoOutputs == [a \in StageSet |-> <<>>]

WorkflowTurn(pc, customer_info, response_prompt) ==
    [pc |-> pc,
     customer_info |-> customer_info,
     response_prompt |-> response_prompt,
     execute_calls |-> ZeroCalls,
     process_calls |-> ZeroCalls,
     outputs |-> NoOutputs,
     failed |-> {},
     exhausted |-> {},
     llm_failures |-> 0,
     parse_failed |-> {},
     optimize |-> "none",
     status_history |-> <<>>,
     workflow_raised |-> FALSE,
     final_result |-> <<>>,
     domain_result |-> <<>>,
     final_response |-> <<>>,
     out |-> <<>>]

WorkflowOff ==
    /\ wf = WorkflowTurn("off", <<>>, FALSE)
    /\ wfStack = <<>>
    /\ wfRet = NoReturn

Frame(fn, agent, input_data, pc) ==
    [fn |-> fn, agent |-> agent, input |-> input_data, attempt |-> 0,
     pc |-> pc, result |-> <<>>]

\* A call of execute_workflow(start_agent_name, input_data, context) runs
\* up to `await current_agent.execute(input_data, context, self)`.
CallWorkflow(stack, agent, input_data) ==
    stack \o <<Frame("execute_workflow", agent, input_data, "await_execute"),
               Frame("execute", agent, input_data, "attempt")>>

CallExecute(stack, agent, input_data) ==
    Append(stack, Frame("execute", agent, input_data, "attempt"))

Top == wfStack[Len(wfStack)]
Pop == SubSeq(wfStack, 1, Len(wfStack) - 1)
ReplaceTop(frame) == Append(Pop, frame)

\* initial_input of process_chat: the query, the enriched history and the
\* state extracted from it (here a turn that has both).
InitialInput ==
    [query |-> <<"user query">>,
     conversation_context |-> <<"earlier turn">>,
     current_state |-> [last_intent |-> "transfer"]]

\* The histories get_conversation_history may hand to a turn: none, or
\* one whose entry has a null agent_log.
WorkflowHistories == {<<>>, <<PyDict([agent_log |-> JNull])>>}

\* process_chat up to the execute_workflow("rewriting", ...) call.  An
\* exception of _create_integrated_context reaches the outer handler
\* before initial_context is set: the 'error' marker ends the stream.
ProcessChatStart ==
    /\ wf.pc = "start"
    /\ \E conversation_history \in WorkflowHistories :
         IF _create_integrated_context(conversation_history).raised
         THEN /\ wf' = [wf EXCEPT !.pc = "done",
                                  !.out = Append(@, ErrorMessage)]
              /\ UNCHANGED <<wfStack, wfRet>>
         ELSE /\ wf' = [wf EXCEPT !.pc = "workflow",
                                  !.execute_calls["rewriting"] = 1]
              /\ wfStack' = CallWorkflow(<<>>, "rewriting", InitialInput)
              /\ wfRet' = NoReturn
    /\ UNCHANGED <<retryVars, validateVars, extractVars, chatVars,
                 storeVars, sessionVars, configVars>>

\* One pass of the retry loop of execute in which the model call raises.
ExecuteAttemptRaises ==
    /\ wf.pc = "workflow"
    /\ wfStack # <<>>
    /\ Top.fn = "execute" /\ Top.pc = "attempt"
    /\ Top.attempt < max_retries
    /\ wf.llm_failures < MaxLlmFailures
    /\ LET a == Top.agent
           last == ~(Top.attempt < max_retries - 1)
       IN  /\ wf' = [wf EXCEPT
                       !.llm_failures = @ + 1,
                       !.process_calls[a] = @ + 1,
                       !.failed = @ \cup {a},
                       !.exhausted = IF last THEN @ \cup {a} ELSE @,
                       !.status_history =
                           UpdateContextHistory(a, Top.input, @)]
           /\ IF last
              THEN /\ wfStack' = Pop
                   /\ wfRet' = RaiseError
              ELSE /\ wfStack' = ReplaceTop([Top EXCEPT !.attempt = @ + 1])
                   /\ wfRet' = NoReturn
    /\ UNCHANGED <<retryVars, validateVars, extractVars, chatVars,
                 storeVars, sessionVars, configVars>>

\* One pass of the retry loop of execute in which _process returns: the
\* output is returned, or the next agent is called from inside execute.
ExecuteAttemptSucceeds ==
    /\ wf.pc = "workflow"
    /\ wfStack # <<>>
    /\ Top.fn = "execute" /\ Top.pc = "attempt"
    /\ Top.attempt < max_retries
    /\ \E response \in LlmResponses(Top.agent), direct_llm \in {"ok", "error"} :
         LET a == Top.agent
             validated_output ==
                 _process(a, Top.input, response, wf.response_prompt,
                          direct_llm)
             next_agent == get_next_agent(a, validated_output)
             called == /\ NextAgentNames(a) # <<>>
                       /\ ~Get(validated_output, "should_skip_next_agent",
                               FALSE)
                       /\ next_agent # "none"
         IN  /\ wf' = [wf EXCEPT
                         !.process_calls[a] = @ + 1,
                         !.outputs[a] = validated_output,
                         !.parse_failed =
                             IF response.kind = "unparseable"
                             THEN @ \cup {a} ELSE @ \ {a},
                         !.status_history =
                             UpdateContextHistory(a, Top.input, @),
                         !.execute_calls =
                             IF called
                             THEN [@ EXCEPT ![next_agent] = @ + 1] ELSE @]
             /\ IF called
                THEN /\ wfStack' =
                          CallExecute(
                              ReplaceTop([Top EXCEPT
                                            !.pc = "await_next",
                                            !.result = validated_output]),
                              next_agent,
                              AgentPrepareNextAgentInput(a, validated_output,
                                                         Top.input))
                     /\ wfRet' = NoReturn
                ELSE /\ wfStack' = Pop
                     /\ wfRet' = ReturnValue(validated_output)
    /\ UNCHANGED <<retryVars, validateVars, extractVars, chatVars,
                 storeVars, sessionVars, configVars>>

\* execute resumes after _call_next_agent: merge, or on an exception
\* return the current result only.
ExecuteNextReturned ==
    /\ wf.pc = "workflow"
    /\ wfStack # <<>>
    /\ Top.fn = "execute" /\ Top.pc = "await_next"
    /\ wfRet.kind # "none"
    /\ wfStack' = Pop
    /\ wfRet' = IF wfRet.kind = "raise" THEN ReturnValue(Top.result)
                ELSE ReturnValue(_merge_results(Top.result, wfRet.v))
    /\ UNCHANGED wf
    /\ UNCHANGED <<retryVars, validateVars, extractVars, chatVars,
                 storeVars, sessionVars, configVars>>

\* execute_workflow resumes after current_agent.execute: re-raise, finish,
\* or recurse into execute_workflow for the next agent.
WorkflowExecuteReturned ==
    /\ wf.pc = "workflow"
    /\ wfStack # <<>>
    /\ Top.fn = "execute_workflow" /\ Top.pc = "await_execute"
    /\ wfRet.kind # "none"
    /\ LET next_agent == get_next_agent(Top.agent, wfRet.v)
       IN  IF wfRet.kind = "raise"
           THEN /\ wfStack' = Pop
                /\ UNCHANGED <<wf, wfRet>>
           ELSE IF next_agent = "none"
           THEN /\ wfStack' = Pop
                /\ UNCHANGED <<wf, wfRet>>
           ELSE /\ wfStack' =
                     CallWorkflow(
                         ReplaceTop([Top EXCEPT !.pc = "await_workflow",
                                                !.result = wfRet.v]),
                         next_agent,
                         ManagerPrepareNextAgentInput(Top.agent, wfRet.v,
                                                      Top.input))
                /\ wf' = [wf EXCEPT !.execute_calls[next_agent] = @ + 1]
                /\ wfRet' = NoReturn
    /\ UNCHANGED <<retryVars, validateVars, extractVars, chatVars,
                 storeVars, sessionVars, configVars>>

\* execute_workflow resumes after its recursive call: re-raise or merge.
WorkflowNextReturned ==
    /\ wf.pc = "workflow"
    /\ wfStack # <<>>
    /\ Top.fn = "execute_workflow" /\ Top.pc = "await_workflow"
    /\ wfRet.kind # "none"
    /\ wfStack' = Pop
    /\ wfRet' = IF wfRet.kind = "raise" THEN RaiseError
                ELSE ReturnValue(_merge_results(Top.result, wfRet.v))
    /\ UNCHANGED wf
    /\ UNCHANGED <<retryVars, validateVars, extractVars, chatVars,
                 storeVars, sessionVars, configVars>>

ResponseChunks(out) == SelectSeq(out, LAMBDA m : m.type = "response")

DefaultWorkflowResult ==
    [tool_name |-> "general_inquiry",
     tool_input |-> <<>>,
     tool_output |-> [response |-> GeneralInquiryText],
     context |-> "context",
     enhanced_slots |-> <<>>]

\* process_chat from the return of execute_workflow to the rendered final
\* response: the direct_response branch, the workflow-level default on an
\* exception, and _generate_final_response; then
\* asyncio.create_task(self._optimize_session_background(session_id)).
ProcessChatWorkflowReturned ==
    /\ wf.pc = "workflow"
    /\ wfStack = <<>>
    /\ wfRet.kind # "none"
    /\ LET final_result == wfRet.v
           domain_result ==
               IF wfRet.kind = "raise" THEN DefaultWorkflowResult
               ELSE IF Get(final_result, "direct_response", <<>>) # <<>>
               THEN [tool_name |-> "direct_response",
                     tool_output |->
                         [response |-> final_result["direct_response"]],
                     context |-> "context",
                     enhanced_slots |-> <<>>]
               ELSE final_result
       IN  wf' = [wf EXCEPT
                    !.pc = "stream",
                    !.optimize = "created",
                    !.workflow_raised = (wfRet.kind = "raise"),
                    !.final_result = final_result,
                    !.domain_result = domain_result,
                    !.final_response =
                        generate_response(
                            Get(domain_result, "tool_name", ""),
                            Get(domain_result, "tool_output", <<>>),
                            wf.customer_info, "none")]
    /\ wfRet' = NoReturn
    /\ UNCHANGED wfStack
    /\ UNCHANGED <<retryVars, validateVars, extractVars, chatVars,
                 storeVars, sessionVars, configVars>>

\* The states of the task once the event loop has run its first step:
\* suspended in the file I/O of a large session file, returned, or ended
\* by an exception that optimize_session_file or
\* _optimize_session_background caught and logged.
OptimizeStarted == wf.optimize \in {"running", "finished", "failed"}

\* process_chat awaiting the task it created.
TaskAwaitedByTurn == TRUE

\* asyncio.create_task(...) is a statement of its own: the task object is
\* dropped and never awaited.
TaskAwaited == FALSE

\* _stream_response: the next chunk of the final response is yielded.
\* After a chunk _stream_response awaits asyncio.sleep(0.03), which hands
\* control to the event loop before the next chunk.
ProcessChatStream ==
    /\ wf.pc = "stream"
    /\ Len(ResponseChunks(wf.out)) < Len(wf.final_response)
    /\ wf.out # <<>> => OptimizeStarted
    /\ TaskAwaited => wf.optimize \in {"finished", "failed"}
    /\ wf' = [wf EXCEPT !.out =
                Append(@, [type |-> "response",
                           content |-> wf.final_response[
                               Len(ResponseChunks(wf.out)) + 1]])]
    /\ UNCHANGED <<wfStack, wfRet>>
    /\ UNCHANGED <<retryVars, validateVars, extractVars, chatVars,
                 storeVars, sessionVars, configVars>>

\* The stream is exhausted: save_conversation, then the 'complete' marker.
ProcessChatComplete ==
    /\ wf.pc = "stream"
    /\ Len(ResponseChunks(wf.out)) = Len(wf.final_response)
    /\ wf.out # <<>> => OptimizeStarted
    /\ TaskAwaited => wf.optimize \in {"finished", "failed"}
    /\ wf' = [wf EXCEPT !.pc = "done", !.out = Append(@, CompleteMessage)]
    /\ UNCHANGED <<wfStack, wfRet>>
    /\ UNCHANGED <<retryVars, validateVars, extractVars, chatVars,
                 storeVars, sessionVars, configVars>>

\* The event loop starts the task created for
\* _optimize_session_background the first time process_chat is suspended
\* after the create_task call: at the sleep that follows the first chunk.
\* optimize_session_file returns at once for a missing or small file,
\* fails (os.path.getsize, the file open) or suspends in the aiofiles read
\* of a large file.
OptimizeSessionBackground ==
    /\ wf.optimize = "created"
    /\ wf.pc \in {"stream", "done"}
    /\ wf.out # <<>> \/ TaskAwaited
    /\ \E outcome \in {"running", "finished", "failed"} :
         wf' = [wf EXCEPT !.optimize = outcome]
    /\ UNCHANGED <<wfStack, wfRet>>
    /\ UNCHANGED <<retryVars, validateVars, extractVars, chatVars,
                 storeVars, sessionVars, configVars>>

\* The suspended task resumes when its file I/O is done: it returns, or
\* the read, json.loads or write raised and the exception is logged.
OptimizeSessionResumes ==
    /\ wf.optimize = "running"
    /\ wf.pc \in {"stream", "done"}
    /\ \E outcome \in {"finished", "failed"} :
         wf' = [wf EXCEPT !.optimize = outcome]
    /\ UNCHANGED <<wfStack, wfRet>>
    /\ UNCHANGED <<retryVars, validateVars, extractVars, chatVars,
                 storeVars, sessionVars, configVars>>

(***************************************************************************)
(* Root pipeline: ChatService.process_chat runs the four stages in         *)
(* sequence, each inside its own try/except that substitutes a default.    *)
(***************************************************************************)
UserQuery == <<"user query">>
BalanceText == "1,000,000 won"

NextStage(stage) ==
    CASE stage = "rewriting" -> "preprocessing"
      [] stage = "preprocessing" -> "supervisor"
      [] stage = "supervisor" -> "domain"
      [] OTHER -> "stream"

MaxTurns == 3
MaxChatFailures == 4
MaxStoreFaults == 1

NoPreviousTurn ==
    [saved |-> FALSE, results |-> NoOutputs, degraded |-> {}]

ChatTurn(pc, customer_info) ==
    [pc |-> pc,
     turn |-> 1,
     previous |-> NoPreviousTurn,
     attempt |-> 0,
     customer_info |-> customer_info,
     history_markers |-> {},
     context |-> <<>>,
     initial_context |-> FALSE,
     store_faults |-> {},
     llm_failures |-> 0,
     faults_total |-> 0,
     recovery |-> FALSE,
     saved |-> FALSE,
     agent_results |-> <<>>,
     results |-> NoOutputs,
     returned |-> NoOutputs,
     execute_returned |-> {},
     degraded |-> {},
     execute_calls |-> ZeroCalls,
     status_history |-> <<>>,
     agent_log |-> <<>>,
     final_response |-> <<>>,
     out |-> <<>>]

ChatOff == ch = ChatTurn("off", <<>>)

\* What each root agent's execute returns when the model call succeeds;
\* `previous` is the result of the stage before it.
RootAgentOutput(stage, previous) ==
    CASE stage = "rewriting" ->
           [rewritten_text |-> <<"rewritten query">>,
            topic |-> "account",
            context_used |-> FALSE]
      [] stage = "preprocessing" ->
           [normalized_text |-> <<"normalized query">>,
            intent |-> "check_balance",
            slot |-> <<"account">>,
            context_used |-> FALSE]
      [] stage = "supervisor" ->
           [target_domain |-> "account",
            normalized_text |-> Get(previous, "normalized_text", <<>>),
            intent |-> Get(previous, "intent", ""),
            slot |-> Get(previous, "slot", <<>>),
            context |-> "context",
            routing_reasoning |-> "reasoning"]
      [] OTHER ->
           [tool_name |-> "account_balance",
            tool_input |-> <<>>,
            tool_output |-> [balance |-> BalanceText, currency |-> "KRW"],
            context |-> "context"]

\* The default result built in each stage's except branch.
RootDefaultResult(stage, previous) ==
    CASE stage = "rewriting" ->
           [rewritten_text |-> UserQuery,
            topic |-> "general",
            context_used |-> FALSE]
      [] stage = "preprocessing" ->
           [normalized_text |-> Get(previous, "rewritten_text", UserQuery),
            intent |-> "general_inquiry",
            slot |-> <<>>,
            context_used |-> FALSE]
      [] stage = "supervisor" ->
           [target_domain |-> "general",
            normalized_text |-> Get(previous, "normalized_text", UserQuery),
            intent |-> Get(previous, "intent", "general_inquiry"),
            slot |-> Get(previous, "slot", <<>>),
            context |-> "context",
            routing_reasoning |-> "Default routing due to error"]
      [] OTHER ->
           [tool_name |-> "general_inquiry",
            tool_input |-> <<>>,
            tool_output |-> [response |-> GeneralInquiryText],
            context |-> "context",
            enhanced_slots |-> <<>>]

PreviousResult(stage) ==
    CASE stage = "preprocessing" -> ch.results["rewriting"]
      [] stage = "supervisor" -> ch.results["preprocessing"]
      [] stage = "domain" -> ch.results["supervisor"]
      [] OTHER -> <<>>

\* The trace line f"{Stage} Agent {io}: {json.dumps(...)}".
LineMarker(stage, io) ==
    CASE stage = "rewriting" /\ io = "Input" -> "Rewriting Agent Input:"
      [] stage = "rewriting" /\ io = "Output" -> OtherMarker
      [] stage = "preprocessing" /\ io = "Input" ->
           "Preprocessing Agent Input:"
      [] stage = "preprocessing" /\ io = "Output" -> PrepMarker
      [] stage = "supervisor" /\ io = "Input" -> "Supervisor Agent Input:"
      [] stage = "supervisor" /\ io = "Output" -> "Supervisor Agent Output:"
      [] stage = "domain" /\ io = "Input" -> "Domain Agent Input:"
      [] OTHER -> DomainMarker

PySlots(slot) == PyList([i \in 1..Len(slot) |-> JStr(slot[i])])

\* json.dumps of a stage result, as far as the state extractor reads it.
ResultPayload(stage, result) ==
    CASE stage = "preprocessing" ->
           PyDict([intent |-> JStr(result["intent"]),
                   slot |-> PySlots(result["slot"])])
      [] stage = "domain" ->
           PyDict([tool_output |->
                     PyDict([key \in DOMAIN result["tool_output"] |->
                                JStr(result["tool_output"][key])])])
      [] OTHER -> PyDict(<<>>)

LogLine(stage, io, payload, embedded) ==
    [agent |-> stage, io |-> io, marker |-> LineMarker(stage, io),
     payload |-> ValidJson(payload), embedded |-> embedded]

\* Every marker that occurs in the agent_log strings of a history.
LogMarkers(agent_log) ==
    IF agent_log.t = "str" /\ "lines" \in DOMAIN agent_log
    THEN UNION {{agent_log.lines[i].marker} \cup Embedded(agent_log.lines[i]) :
                    i \in 1..Len(agent_log.lines)}
    ELSE {}

HistoryMarkers(conversation_history) ==
    UNION {LogMarkers(Get(conversation_history[i].f, "agent_log",
                          LogText(<<>>))) :
               i \in 1..Len(conversation_history)}

\* ChatService._update_context_with_result, on the state fields.
_update_context_with_result(context, agent_name, result) ==
    LET stepped == [context EXCEPT !["depth"] = JInt(@.n + 1)]
        tool_output == Get(result, "tool_output", <<>>)
    IN  IF agent_name = "preprocessing"
        THEN [stepped EXCEPT
                !["last_intent"] =
                    IF "intent" \in DOMAIN result THEN JStr(result["intent"])
                    ELSE JNull,
                !["last_slots"] = PySlots(Get(result, "slot", <<>>))]
        ELSE IF agent_name = "domain"
                /\ "account_number" \in DOMAIN tool_output
        THEN [stepped EXCEPT !["selected_account"] =
                  JStr(tool_output["account_number"])]
        ELSE stepped

\* The context dictionary reaches itself through agent_results when a
\* stored result carries the context under its "context" key.
ContextCircular(agent_results) ==
    \E stage \in DOMAIN agent_results :
        "context" \in DOMAIN agent_results[stage]

\* json.dumps raises ValueError("Circular reference detected").
JsonDumpsRaises(value_holds_context, agent_results) ==
    value_holds_context /\ ContextCircular(agent_results)

\* ChatService._generate_final_response (root).
RootGenerateFinalResponse(domain_result, customer_info) ==
    LET tool_output == Get(domain_result, "tool_output", <<>>)
        tool_name == Get(domain_result, "tool_name", "")
        customer_name == Get(customer_info, "name", "customer")
        prefix == IF customer_info # <<>> THEN <<customer_name, "nim, ">>
                  ELSE <<>>
    IN  IF tool_name = "account_balance"
        THEN prefix \o <<Get(tool_output, "account_number", "current account"),
                         "balance is", Get(tool_output, "balance", "unknown")>>
        ELSE IF tool_output # <<>>
        THEN prefix \o <<"str(tool_output)">>
        ELSE prefix \o UserQuery \o <<"answer">>

\* _update_context_with_result and the step to the next stage; after the
\* domain stage the final response is generated.
ChatAdvance(turn, stage, result) ==
    LET updated ==
            [turn EXCEPT
               !.context = _update_context_with_result(@, stage, result),
               !.agent_results = _merge_results(@, stage :> result),
               !.results[stage] = result,
               !.attempt = 0,
               !.pc = NextStage(stage)]
    IN  IF stage = "domain"
        THEN [updated EXCEPT !.final_response =
                 RootGenerateFinalResponse(result, turn.customer_info)]
        ELSE [updated EXCEPT !.execute_calls[NextStage(stage)] = @ + 1]

\* The session files a first turn may find: none, a fresh one, or one
\* written by another program version whose entry has a null agent_log.
\* The record of a session whose last HistoryLimit turns completed without
\* a failure: the turn before the first one of the run found
\* HistoryLimit - 1 entries and applied four stage results.
FullWindowSession ==
    PyDict([session_id |-> JStr(TheSession),
            customer_info |-> PyDict(<<>>),
            conversation_history |->
                PyList([i \in 1..HistoryLimit |->
                           conversation_entry(JStr(UserQuery),
                                              JStr(<<"answer">>),
                                              LogText(<<>>), PyDict(<<>>))]),
            current_context |-> ZeroContext(HistoryLimit - 1 + 4)])

ChatStores ==
    {NoFile, FileOf(NewSessionData(TheSession, JNull)),
     FileOf(PyDict([conversation_history |->
                        PyList(<<PyDict([agent_log |-> JNull])>>)])),
     FileOf(FullWindowSession)}

\* process_chat up to the first stage: load or create the session, read
\* the history, build the context.  An exception of the context
\* construction reaches the outer handler before initial_context is set,
\* so no recovery write is made and the 'error' marker ends the stream.
ChatStart ==
    /\ ch.pc = "start"
    /\ \E load_ok, create_ok, history_ok \in BOOLEAN :
         LET session_data == load_session(store, load_ok)
             created ==
                 IF Truthy(session_data) THEN [file |-> store, result |-> TRUE]
                 ELSE create_session(store, TheSession,
                                     CustomerInfoValue(ch.customer_info),
                                     create_ok)
             conversation_history ==
                 get_conversation_history(created.file, HistoryLimit,
                                          history_ok)
             faults ==
                 {op \in {"load", "create", "history"} :
                     \/ op = "load" /\ ~load_ok
                     \/ op = "create" /\ ~create_ok
                     \/ op = "history" /\ ~history_ok}
             built == _create_integrated_context(conversation_history)
         IN  /\ store.exists \/ load_ok
             /\ Truthy(session_data) => create_ok
             /\ created.file.exists \/ history_ok
             /\ ch.faults_total + Cardinality(faults) <= MaxStoreFaults
             /\ store' = created.file
             /\ IF built.raised
                THEN ch' = [ch EXCEPT !.pc = "done",
                                      !.store_faults = faults,
                                      !.faults_total = @ + Cardinality(faults),
                                      !.out = Append(@, ErrorMessage)]
                ELSE ch' = [ch EXCEPT
                              !.pc = "rewriting",
                              !.store_faults = faults,
                              !.faults_total = @ + Cardinality(faults),
                              !.history_markers =
                                  HistoryMarkers(conversation_history),
                              !.context = built.context,
                              !.initial_context = TRUE,
                              !.execute_calls["rewriting"] = 1]
    /\ UNCHANGED sMax
    /\ UNCHANGED <<retryVars, validateVars, extractVars, workflowVars,
                   sessionVars, configVars>>

\* An attempt of the current stage's execute raises: retry, or, on the last
\* attempt, the stage's except branch substitutes the default.
ChatAttemptRaises ==
    /\ ch.pc \in StageSet
    /\ ch.attempt < max_retries
    /\ ch.llm_failures < MaxChatFailures
    /\ LET stage == ch.pc
           touched == [ch EXCEPT
                         !.llm_failures = @ + 1,
                         !.status_history =
                          UpdateContextHistory(stage, PreviousResult(stage), @)]
       IN  IF ch.attempt < max_retries - 1
           THEN ch' = [touched EXCEPT !.attempt = @ + 1]
           ELSE ch' = ChatAdvance(
                          [touched EXCEPT !.degraded = @ \cup {stage}],
                          stage,
                          RootDefaultResult(stage, PreviousResult(stage)))
    /\ UNCHANGED <<retryVars, validateVars, extractVars, workflowVars,
                 storeVars, sessionVars, configVars>>

\* An attempt of the current stage's execute returns; the two trace lines
\* are serialised with json.dumps inside the same try block, so a
\* serialisation error also lands in the except branch.
ChatAttemptReturns ==
    /\ ch.pc \in StageSet
    /\ ch.attempt < max_retries
    /\ LET stage == ch.pc
           output == RootAgentOutput(stage, PreviousResult(stage))
           input_raises == JsonDumpsRaises(TRUE, ch.agent_results)
           output_raises ==
               JsonDumpsRaises("context" \in DOMAIN output, ch.agent_results)
           touched ==
               [ch EXCEPT
                  !.status_history =
                      UpdateContextHistory(stage, PreviousResult(stage), @),
                  !.execute_returned = @ \cup {stage},
                  !.returned[stage] = output,
                  !.agent_log =
                      IF input_raises THEN @
                      ELSE IF output_raises
                      THEN Append(@, LogLine(stage, "Input", PyDict(<<>>),
                                             ch.history_markers))
                      ELSE @ \o <<LogLine(stage, "Input", PyDict(<<>>),
                                          ch.history_markers),
                                  LogLine(stage, "Output",
                                          ResultPayload(stage, output),
                                          IF "context" \in DOMAIN output
                                          THEN ch.history_markers
                                          ELSE {})>>]
       IN  IF input_raises \/ output_raises
           THEN ch' = ChatAdvance(
                          [touched EXCEPT !.degraded = @ \cup {stage}],
                          stage,
                          RootDefaultResult(stage, PreviousResult(stage)))
           ELSE ch' = ChatAdvance(touched, stage, output)
    /\ UNCHANGED <<retryVars, validateVars, extractVars, workflowVars,
                 storeVars, sessionVars, configVars>>

\* _stream_response: the next chunk of the final response is yielded.
ChatStream ==
    /\ ch.pc = "stream"
    /\ Len(ResponseChunks(ch.out)) < Len(ch.final_response)
    /\ ch' = [ch EXCEPT !.out =
                Append(@, [type |-> "response",
                           content |-> ch.final_response[
                               Len(ResponseChunks(ch.out)) + 1]])]
    /\ UNCHANGED <<retryVars, validateVars, extractVars, workflowVars,
                 storeVars, sessionVars, configVars>>

\* The stream is exhausted: save_conversation, whose boolean result is
\* not looked at, then the 'complete' marker.
ChatComplete ==
    /\ ch.pc = "stream"
    /\ Len(ResponseChunks(ch.out)) = Len(ch.final_response)
    /\ \E load_ok, write_ok \in BOOLEAN :
         LET r == save_conversation(
                      store, sMax,
                      [user_query |-> JStr(UserQuery),
                       agent_response |-> JStr(ch.final_response),
                       agent_log |-> LogText(ch.agent_log)],
                      PyDict(ch.context), load_ok, write_ok)
             io_faults == IF load_ok /\ write_ok THEN 0 ELSE 1
         IN  /\ store.exists \/ load_ok
             /\ (~store.exists \/ ~load_ok) => write_ok
             /\ ch.faults_total + io_faults <= MaxStoreFaults
             /\ store' = r.file
             /\ ch' = [ch EXCEPT
                         !.pc = "done",
                         !.saved = r.result,
                         !.faults_total = @ + io_faults,
                         !.store_faults =
                             IF r.result THEN @ ELSE @ \cup {"save"},
                         !.out = Append(@, CompleteMessage)]
    /\ UNCHANGED sMax
    /\ UNCHANGED <<retryVars, validateVars, extractVars, workflowVars,
                   sessionVars, configVars>>

JTrue == [t |-> "bool", b |-> TRUE]

\* The context_updates of the error recovery.
RecoveryUpdates ==
    [error_recovery |-> JTrue,
     error_message |-> JStr("str(e)"),
     recovery_timestamp |-> JStr("now")]

\* An outer handler that yields the 'error' marker without the recovery
\* write.
ChatFatalWithoutRecovery ==
    /\ ch.pc \in {"preprocessing", "supervisor"}
    /\ ch.attempt = 0
    /\ ch.initial_context
    /\ ch.faults_total + 1 <= MaxStoreFaults
    /\ ch' = [ch EXCEPT !.pc = "done",
                        !.recovery = TRUE,
                        !.faults_total = @ + 1,
                        !.out = Append(@, ErrorMessage)]
    /\ UNCHANGED <<store, sMax>>
    /\ UNCHANGED <<retryVars, validateVars, extractVars, workflowVars,
                   sessionVars, configVars>>

\* The outer except of process_chat after initial_context was set.  The
\* except branches of the preprocessing and the supervisor stage read the
\* previous stage's result (rewriting_result.get, preprocessing_result.get)
\* outside any handler: when that result is not a dictionary, building the
\* stage input raises, the except branch raises again and the exception
\* reaches the outer handler.  update_context is awaited, its result is
\* not looked at, and the 'error' marker is yielded.  The result that is
\* not a dictionary counts as one injected fault of the run.
ChatFatal ==
    /\ ch.pc \in {"preprocessing", "supervisor"}
    /\ ch.attempt = 0
    /\ ch.initial_context
    /\ \E load_ok, write_ok \in BOOLEAN :
         LET r == update_context(store, RecoveryUpdates, load_ok, write_ok)
             faults == IF load_ok /\ write_ok THEN 1 ELSE 2
         IN  /\ store.exists \/ load_ok
             /\ (~store.exists \/ ~load_ok) => write_ok
             /\ ch.faults_total + faults <= MaxStoreFaults
             /\ store' = r.file
             /\ ch' = [ch EXCEPT
                         !.pc = "done",
                         !.recovery = TRUE,
                         !.faults_total = @ + faults,
                         !.store_faults =
                             IF r.result THEN @ ELSE @ \cup {"recovery"},
                         !.out = Append(@, ErrorMessage)]
    /\ UNCHANGED sMax
    /\ UNCHANGED <<retryVars, validateVars, extractVars, workflowVars,
                   sessionVars, configVars>>

\* The next process_chat call on the same session.
ChatNextTurn ==
    /\ ch.pc = "done"
    /\ ch.turn < MaxTurns
    /\ ch' = [ChatTurn("start", ch.customer_info) EXCEPT
                !.turn = ch.turn + 1,
                !.llm_failures = ch.llm_failures,
                !.faults_total = ch.faults_total,
                !.previous = [saved |-> ch.saved,
                              results |-> ch.results,
                              degraded |-> ch.degraded]]
    /\ UNCHANGED storeVars
    /\ UNCHANGED <<retryVars, validateVars, extractVars, workflowVars,
                   sessionVars, configVars>>


(***************************************************************************)
(* Agent configurations and the AgentManager built on them (ver0.2).       *)
(* AgentConfigManager._load_configs keeps every configuration that parses; *)
(* AgentManager._initialize_agents registers the four agents; neither      *)
(* looks at next_agent.  The chain is first walked in a turn, by           *)
(* execute_workflow, one get_next_agent call per step.                     *)
(***************************************************************************)
MaxWalk == 6

SuccessorIds ==
    {"rewriting_agent", "preprocessing_agent", "supervisor_agent",
     "domain_agent", "domain", "ghost_agent"}

\* next_agent lists: empty, one entry, or a second entry after the first.
NextAgentLists ==
    {<<>>} \cup {<<id>> : id \in SuccessorIds}
           \cup {<<id, "domain_agent">> :
                     id \in {"preprocessing_agent", "ghost_agent"}}

\* AgentManager.get_agent_by_config_name, then get_agent: "none" is None.
get_agent_by_config_name(config_name) ==
    CASE config_name = "rewriting_agent" -> "rewriting"
      [] config_name = "preprocessing_agent" -> "preprocessing"
      [] config_name = "supervisor_agent" -> "supervisor"
      [] config_name = "domain_agent" -> "domain"
      [] config_name \in StageSet -> config_name
      [] OTHER -> "none"

\* AgentManager.get_next_agent taking the last name of the list.
ConfiguredNextAgentLastEntry(next_agent, current_agent) ==
    IF next_agent[current_agent] = <<>> THEN "none"
    ELSE get_agent_by_config_name(
             next_agent[current_agent][Len(next_agent[current_agent])])

\* AgentManager.get_next_agent for a result without the skip flag.
ConfiguredNextAgent(next_agent, current_agent) ==
    IF next_agent[current_agent] = <<>> THEN "none"
    ELSE get_agent_by_config_name(next_agent[current_agent][1])

ConfigOff ==
    cfg = [pc |-> "off", next_agent |-> [a \in StageSet |-> <<>>],
           accepted |-> FALSE, current |-> "none", routed_from |-> "none",
           steps |-> 0, unknown_tolerated |-> FALSE]

\* AgentConfigManager._load_configs and AgentManager.__init__ at import
\* and service construction.
ConfigBuildManager ==
    /\ cfg.pc = "load"
    /\ cfg' = [cfg EXCEPT !.pc = "built", !.accepted = TRUE]
    /\ UNCHANGED <<retryVars, validateVars, extractVars, workflowVars,
                   chatVars, storeVars, sessionVars>>

\* The first turn: execute_workflow("rewriting", ...).
ConfigFirstTurn ==
    /\ cfg.pc = "built"
    /\ cfg.accepted
    /\ cfg' = [cfg EXCEPT !.pc = "walk", !.current = "rewriting",
                          !.steps = 1]
    /\ UNCHANGED <<retryVars, validateVars, extractVars, workflowVars,
                   chatVars, storeVars, sessionVars>>

\* execute_workflow after the current agent's execute: get_next_agent,
\* then the recursive call or the return.
ConfigWalkStep ==
    /\ cfg.pc = "walk"
    /\ cfg.steps < MaxWalk
    /\ LET next == ConfiguredNextAgent(cfg.next_agent, cfg.current)
       IN  IF next = "none"
           THEN cfg' = [cfg EXCEPT
                          !.pc = "walked",
                          !.unknown_tolerated =
                              cfg.next_agent[cfg.current] # <<>>]
           ELSE cfg' = [cfg EXCEPT !.current = next,
                                   !.routed_from = cfg.current,
                                   !.steps = @ + 1]
    /\ UNCHANGED <<retryVars, validateVars, extractVars, workflowVars,
                   chatVars, storeVars, sessionVars>>

(***************************************************************************)
(* Specifications.                                                         *)
(***************************************************************************)
InitRetry ==
    /\ rPolicy \in RetryPolicies
    /\ rInputOk \in BOOLEAN
    /\ rPc = "loop"
    /\ rAttempt = 0
    /\ rTrace = <<>>
    /\ rOutcome = NoOutcome
    /\ ValidateOff /\ ExtractOff /\ WorkflowOff /\ ChatOff
    /\ StoreOff /\ SessionOff /\ ConfigOff

NextRetry ==
    \/ RetryAttemptRaises
    \/ RetryAttemptReturns
    \/ RetryLoopFallsThrough

SpecRetry == InitRetry /\ [][NextRetry]_vars

InitValidate ==
    /\ vValue \in DataValues
    /\ vSchema \in DataSchemas
    /\ vPc = "ready"
    /\ vError = FALSE
    /\ RetryOff /\ ExtractOff /\ WorkflowOff /\ ChatOff
    /\ StoreOff /\ SessionOff /\ ConfigOff

NextValidate == ValidateRun

SpecValidate == InitValidate /\ [][NextValidate]_vars

InitExtract ==
    /\ xHistory \in Histories
    /\ xPc = "ready"
    /\ xRaised = "none"
    /\ xState = ZeroState
    /\ RetryOff /\ ValidateOff /\ WorkflowOff /\ ChatOff
    /\ StoreOff /\ SessionOff /\ ConfigOff

NextExtract == ExtractRun

SpecExtract == InitExtract /\ [][NextExtract]_vars

InitWorkflow ==
    /\ \E customer_info \in CustomerInfos, response_prompt \in BOOLEAN :
           wf = WorkflowTurn("start", customer_info, response_prompt)
    /\ wfStack = <<>>
    /\ wfRet = NoReturn
    /\ RetryOff /\ ValidateOff /\ ExtractOff /\ ChatOff
    /\ StoreOff /\ SessionOff /\ ConfigOff

NextWorkflow ==
    \/ ProcessChatStart
    \/ ExecuteAttemptRaises
    \/ ExecuteAttemptSucceeds
    \/ ExecuteNextReturned
    \/ WorkflowExecuteReturned
    \/ WorkflowNextReturned
    \/ ProcessChatWorkflowReturned
    \/ ProcessChatStream
    \/ OptimizeSessionBackground
    \/ OptimizeSessionResumes
    \/ ProcessChatComplete

SpecWorkflow == InitWorkflow /\ [][NextWorkflow]_vars

InitChat ==
    /\ \E customer_info \in CustomerInfos : ch = ChatTurn("start", customer_info)
    /\ store \in ChatStores
    /\ sMax = MAX_SESSION_HISTORY
    /\ RetryOff /\ ValidateOff /\ ExtractOff /\ WorkflowOff
    /\ SessionOff /\ ConfigOff

NextChat ==
    \/ ChatStart
    \/ ChatAttemptRaises
    \/ ChatAttemptReturns
    \/ ChatStream
    \/ ChatComplete
    \/ ChatFatal
    \/ ChatNextTurn

SpecChat == InitChat /\ [][NextChat]_vars

InitSession ==
    /\ store = NoFile
    /\ sMax \in 0..MaxHistoryCfg
    /\ sProcs = [c \in Callers |-> IdleCaller]
    /\ sWrites = <<>>
    /\ ApiOff
    /\ OptimizerOff
    /\ RetryOff /\ ValidateOff /\ ExtractOff /\ WorkflowOff /\ ChatOff
    /\ ConfigOff

NextSession ==
    \/ SessionCreate
    \/ SaveLoadStep
    \/ SaveWriteStep
    \/ SessionGetHistoryStep

SpecSession == InitSession /\ [][NextSession]_vars

InitStoreApi ==
    /\ \E seeded \in SUBSET SessionIds, in_flight \in BOOLEAN :
         /\ files = [path \in SessionPaths |->
                        IF \E sid \in seeded :
                               path = _get_session_file_path(sid)
                        THEN SeedFile(CHOOSE sid \in seeded :
                                          path = _get_session_file_path(sid))
                        ELSE NoFile]
         /\ api = [ApiIdle("run") EXCEPT
                      !.turns = [sid \in SessionIds |->
                                    IF sid \in seeded THEN SeedTurns(sid)
                                    ELSE <<>>],
                      !.turn_ref[2] =
                          IF in_flight THEN NewContextRef(NoContexts) ELSE 0,
                      !.contexts[NewContextRef(NoContexts)] =
                          IF in_flight
                          THEN [session_id |-> "B",
                                depth |-> IF "B" \in seeded THEN 2 ELSE 0,
                                status_history |-> <<"supervisor_processing">>]
                          ELSE NoContext]
    /\ store = NoFile
    /\ sMax \in {MaxHistoryCfg, MAX_SESSION_HISTORY}
    /\ sProcs = [c \in Callers |-> OffCaller]
    /\ sWrites = <<>>
    /\ OptimizerOff
    /\ RetryOff /\ ValidateOff /\ ExtractOff /\ WorkflowOff /\ ChatOff
    /\ ConfigOff

NextStoreApi ==
    \/ ApiCreateSession
    \/ ApiDeleteSession
    \/ ApiSaveConversation
    \/ ApiGetConversationHistory
    \/ ApiUpdateContext
    \/ ApiClearContext
    \/ ApiOptimizeSessionFile
    \/ ApiTurnStart
    \/ ApiTurnUpdateContext

SpecStoreApi == InitStoreApi /\ [][NextStoreApi]_vars

\* The session file after n turns were saved on a new session.
RECURSIVE SavedTurns(_, _)
SavedTurns(n, max_history) ==
    IF n = 0 THEN create_session(NoFile, TheSession, JNull, TRUE).file
    ELSE save_conversation(SavedTurns(n - 1, max_history), max_history,
                           SaveArgs(0, n), FullContext, TRUE, TRUE).file

InitCompaction ==
    /\ sMax = MaxHistoryCfg
    /\ store \in {SavedTurns(n, MaxHistoryCfg) : n \in 0..(MaxHistoryCfg + 1)}
    /\ sProcs = [c \in Callers |-> IF c = 1 THEN IdleCaller ELSE OffCaller]
    /\ sWrites = <<>>
    /\ opt = OptimizerTask("idle")
    /\ ApiOff
    /\ RetryOff /\ ValidateOff /\ ExtractOff /\ WorkflowOff /\ ChatOff
    /\ ConfigOff

NextCompaction ==
    \/ SaveLoadStep
    \/ SaveWriteStep
    \/ SessionGetHistoryStep
    \/ OptimizeRead
    \/ OptimizeWrite

SpecCompaction == InitCompaction /\ [][NextCompaction]_vars

InitConfig ==
    /\ \E next_agent \in [StageSet -> NextAgentLists] :
           cfg = [pc |-> "load", next_agent |-> next_agent,
                  accepted |-> FALSE, current |-> "none",
                  routed_from |-> "none", steps |-> 0,
                  unknown_tolerated |-> FALSE]
    /\ RetryOff /\ ValidateOff /\ ExtractOff /\ WorkflowOff /\ ChatOff
    /\ StoreOff /\ SessionOff

NextConfig ==
    \/ ConfigBuildManager
    \/ ConfigFirstTurn
    \/ ConfigWalkStep

SpecConfig == InitConfig /\ [][NextConfig]_vars

Init ==
    \/ InitRetry \/ InitValidate \/ InitExtract \/ InitWorkflow \/ InitChat
    \/ InitSession \/ InitConfig

Next ==
    \/ NextRetry \/ NextValidate \/ NextExtract \/ NextWorkflow \/ NextChat
    \/ NextSession \/ NextConfig

Spec == Init /\ [][Next]_vars

(***************************************************************************)
(* Properties.                                                             *)
(***************************************************************************)
RewritingTerminates ==
    Get(wf.outputs["rewriting"], "should_skip_next_agent", FALSE)

WorkflowFinished == wf.pc \in {"stream", "done"}

StreamedText(out) ==
    [i \in 1..Len(ResponseChunks(out)) |-> ResponseChunks(out)[i].content]

\* C1: early termination.  Once the rewriting stage's output carries
\* should_skip_next_agent, no later stage (preprocessing, supervisor,
\* domain) is executed or processed in the turn, and the chain walk hands
\* back exactly that output, which carries the direct_response payload.
C1_EarlyTermination ==
    RewritingTerminates =>
        /\ \A a \in LaterStages("rewriting") :
               wf.execute_calls[a] = 0 /\ wf.process_calls[a] = 0
        /\ (wf.pc = "workflow" /\ wfStack = <<>>) =>
               wfRet = ReturnValue(wf.outputs["rewriting"])
        /\ WorkflowFinished =>
               /\ ~wf.workflow_raised
               /\ wf.final_result = wf.outputs["rewriting"]
               /\ "direct_response" \in DOMAIN wf.final_result

C1_Witness ==
    /\ wf.pc = "done"
    /\ RewritingTerminates
    /\ wf.process_calls["rewriting"] >= 1
    /\ wf.final_result = wf.outputs["rewriting"]

\* C2: when the rewriting stage terminated the chain, the final response
\* and the text streamed to the caller, chunk by chunk, equal that stage's
\* direct_response, with no customer-name prefix or other transformation.
C2_DirectResponseVerbatim ==
    (RewritingTerminates /\ WorkflowFinished) =>
        /\ wf.final_response = wf.outputs["rewriting"]["direct_response"]
        /\ wf.pc = "done" =>
               StreamedText(wf.out) =
                   wf.outputs["rewriting"]["direct_response"]

C2_Witness ==
    /\ wf.pc = "done"
    /\ RewritingTerminates
    /\ wf.customer_info # <<>>
    /\ StreamedText(wf.out) = <<"generated direct answer">>

\* C3: no stage re-entry.  In a turn that is not terminated early and in
\* which no attempt of any stage fails, every stage's process step has run
\* exactly once when the chain walk is over.
C3_NoStageReentry ==
    (WorkflowFinished /\ ~RewritingTerminates /\ wf.failed = {}) =>
        \A a \in StageSet : wf.process_calls[a] = 1

\* C4: degrade, don't abort.  When a single stage has exhausted its
\* retries, every stage after it is still invoked in the turn, and the
\* turn ends with response chunks followed by 'complete'.
C4_DegradeDontAbort ==
    (wf.pc = "done" /\ Cardinality(wf.exhausted) = 1) =>
        /\ \A a \in wf.exhausted : \A b \in LaterStages(a) :
               wf.execute_calls[b] >= 1
        /\ wf.out[Len(wf.out)].type = "complete"
        /\ \A i \in 1..(Len(wf.out) - 1) : wf.out[i].type = "response"

\* C5: a default is substituted only if execute raised.  Whenever the
\* domain stage's execute returned, the turn's domain result is the output
\* it returned, and for tool account_balance the final response contains
\* the balance string the tool returned.
C5_DefaultOnlyOnFailure ==
    (ch.pc \in {"stream", "done"} /\ "domain" \in ch.execute_returned) =>
        /\ ch.results["domain"] = ch.returned["domain"]
        /\ "domain" \notin ch.degraded
        /\ ch.returned["domain"]["tool_name"] = "account_balance" =>
               \E i \in 1..Len(ch.final_response) :
                   ch.final_response[i] =
                       ch.returned["domain"]["tool_output"]["balance"]

RetryFails == SelectEvents(rTrace, "fail")
RetrySleeps == SelectEvents(rTrace, "sleep")
RetryDelays == [i \in 1..Len(RetrySleeps) |-> RetrySleeps[i].d]

RECURSIVE ExpectedTotalDelay(_, _)
ExpectedTotalDelay(policy, n) ==
    IF n < 2 THEN 0
    ELSE Min(policy.retry_delay * (2 ^ (n - 2)), policy.retry_delay_max)
         + ExpectedTotalDelay(policy, n - 1)

\* C6: retry with backoff.  When execute returns a result after k failed
\* attempts, k < max_retries, the run is: failed attempt 1, sleep, ...,
\* failed attempt k, sleep, successful attempt k+1; the sleep before
\* attempt n is min(retry_delay * 2^(n-2), retry_delay_max), the total is
\* the sum of these for n = 2..k+1, and nothing is slept before the first
\* attempt or after the successful one.
C6_RetryBackoff ==
    (rPc = "returned" /\ rOutcome.kind = "result") =>
        LET k == Len(RetryFails)
        IN  /\ k < rPolicy.max_retries
            /\ Len(rTrace) = 2 * k + 1
            /\ rTrace[2 * k + 1].e = "ok" /\ rTrace[2 * k + 1].n = k + 1
            /\ \A n \in 2..(k + 1) :
                   /\ rTrace[2 * n - 3].e = "fail"
                   /\ rTrace[2 * n - 3].n = n - 1
                   /\ rTrace[2 * n - 2].e = "sleep"
                   /\ rTrace[2 * n - 2].d =
                          Min(rPolicy.retry_delay * (2 ^ (n - 2)),
                              rPolicy.retry_delay_max)
            /\ SumSeq(RetryDelays) = ExpectedTotalDelay(rPolicy, k + 1)

C6_Witness ==
    /\ rPc = "returned"
    /\ rOutcome.kind = "result"
    /\ Len(RetryFails) = 2
    /\ RetryDelays = <<2, 3>>

\* C7: retry exhaustion.  For every retry policy, when no attempt
\* succeeds, execute has made exactly max_retries attempts, the caller
\* receives the error of the last attempt (not a result, and not nothing),
\* and no sleep follows the final failed attempt.
C7_RetryExhaustion ==
    (rPc = "returned" /\ SelectEvents(rTrace, "ok") = <<>>) =>
        /\ Len(RetryFails) = rPolicy.max_retries
        /\ rOutcome.kind = "error"
        /\ rOutcome.err = rPolicy.max_retries
        /\ rTrace # <<>> /\ rTrace[Len(rTrace)].e = "fail"

\* The structural conformance of the schema contract: every key an object
\* schema declares is present, at every level, with the matching type.
RECURSIVE Conforms(_, _)
Conforms(value, schema) ==
    IF schema.t = "list"
    THEN /\ value.t = "list"
         /\ \A i \in 1..Len(value.items) :
                Conforms(value.items[i], schema.elem[1])
    ELSE IF schema.t = "dict"
    THEN /\ value.t = "dict"
         /\ \A key \in DOMAIN schema.f :
                /\ key \in DOMAIN value.f
                /\ Conforms(value.f[key], schema.f[key])
    ELSE IF schema.t = "string" THEN value.t = "str"
    ELSE IF schema.t = "int" THEN value.t = "int"
    ELSE value.t = "dict"

\* C8: schema validation is exact and recursive.  Validation reports no
\* error if and only if every key declared by every object schema, at the
\* top level and at every nested level, is present in the value with the
\* matching structural type.
C8_ValidationExact ==
    vPc = "done" => (~vError <=> Conforms(vValue, vSchema))

\* C9: state extraction never raises, whatever the history holds.
C9_ExtractionNeverRaises ==
    xPc = "done" => xRaised = "none"

LatestEntry == xHistory[Len(xHistory)]

\* C10: snapshot first.  Whenever the most recent persisted turn carries a
\* context_snapshot, the state built for the next turn is that snapshot.
C10_SnapshotFirst ==
    (/\ xPc = "done"
     /\ xHistory # <<>>
     /\ LatestEntry.t = "dict"
     /\ "context_snapshot" \in DOMAIN LatestEntry.f) =>
        /\ xRaised = "none"
        /\ xState = LatestEntry.f["context_snapshot"].f

\* C11: multi-turn state carry-over.  At the start of every turn after the
\* first, when the previous turn was saved and the store answered this
\* turn's reads, the reconstructed state carries the previous turn:
\* last_intent and last_slots are the intent and slots its preprocessing
\* stage returned, and selected_account is the account_number of its
\* domain tool output when that had one.
C11_StateCarryOver ==
    (/\ ch.turn > 1
     /\ ch.initial_context
     /\ ch.previous.saved
     /\ ch.store_faults = {}) =>
        LET state == ch.context["current_state"].f
            prep == ch.previous.results["preprocessing"]
            tool_output ==
                Get(ch.previous.results["domain"], "tool_output", <<>>)
        IN  /\ "preprocessing" \notin ch.previous.degraded =>
                  /\ state.last_intent = JStr(prep["intent"])
                  /\ state.last_slots = PySlots(prep["slot"])
            /\ (/\ "domain" \notin ch.previous.degraded
                /\ "account_number" \in DOMAIN tool_output) =>
                   state.selected_account = JStr(tool_output["account_number"])

\* The history a reader finds in the session file.
StoredHistory == get_conversation_history(store, 0, TRUE)

WritePosition(entry) == CHOOSE i \in 1..Len(sWrites) : sWrites[i] = entry

\* C12: history cap.  After any sequence of save_conversation calls, for
\* every configured maximum, the stored history is never longer than the
\* maximum; its entries are saved turns in the order they were saved, the
\* most recent one last, and when one caller saves turn after turn they
\* are exactly the most recent ones.
C12_HistoryCap ==
    /\ Len(StoredHistory) <= sMax
    /\ \A i \in 1..Len(StoredHistory) :
           \E k \in 1..Len(sWrites) : sWrites[k] = StoredHistory[i]
    /\ \A i, k \in 1..Len(StoredHistory) :
           i < k => WritePosition(StoredHistory[i])
                        < WritePosition(StoredHistory[k])
    /\ (sMax >= 1 /\ sWrites # <<>>) =>
           /\ StoredHistory # <<>>
           /\ StoredHistory[Len(StoredHistory)] = sWrites[Len(sWrites)]
    /\ (\E c \in Callers : sProcs[c].calls = 0) =>
           StoredHistory =
               SubSeq(sWrites, Len(sWrites) - Min(sMax, Len(sWrites)) + 1,
                      Len(sWrites))

\* The fields of the conversation state.
StateFields ==
    {"selected_account", "last_intent", "last_slots", "pending_action",
     "missing_slots"}

\* C13: persisted state is whole and current.  After save_conversation
\* has completed for a turn, the context_snapshot of the stored turn and
\* the current_context of the session both hold, in every state field, the
\* value valid after that turn.
C13_PersistedStateCurrent ==
    (ch.pc = "done" /\ ch.saved) =>
        LET session_data == JsonLoads(store.text)
            history == session_data.f["conversation_history"].items
            context_snapshot == history[Len(history)].f["context_snapshot"]
            current_context == session_data.f["current_context"]
        IN  \A field \in StateFields :
                /\ Get(context_snapshot.f, field, JNull) = ch.context[field]
                /\ Get(current_context.f, field, JNull) = ch.context[field]

\* A caller whose save_conversation returned True and whose
\* get_conversation_history ran before any other write to the session.
ReadOwnSave(c) ==
    /\ sProcs[c].pc = "idle"
    /\ sProcs[c].result
    /\ sProcs[c].wrote_at > 0
    /\ sProcs[c].got_at = sProcs[c].wrote_at

\* C14: snapshot round trip.  After save_conversation(s, query, response,
\* log, context) succeeded, the last element returned by
\* get_conversation_history(s) has the saved user_query, agent_response
\* and agent_log, and its context_snapshot equals the saved state field
\* for field.
C14_SnapshotRoundTrip ==
    \A c \in Callers :
        ReadOwnSave(c) =>
            /\ sProcs[c].got # <<>>
            /\ LET last == sProcs[c].got[Len(sProcs[c].got)]
                   saved_state ==
                       IF Truthy(sProcs[c].context)
                       THEN sProcs[c].context.f["current_state"]
                       ELSE PyDict(<<>>)
               IN  /\ last.t = "dict"
                   /\ last.f["user_query"] = sProcs[c].args.user_query
                   /\ last.f["agent_response"] = sProcs[c].args.agent_response
                   /\ last.f["agent_log"] = sProcs[c].args.agent_log
                   /\ DOMAIN last.f["context_snapshot"].f = DOMAIN saved_state.f
                   /\ \A field \in DOMAIN saved_state.f :
                          last.f["context_snapshot"].f[field]
                              = saved_state.f[field]

\* A caller read back its own turn, saved with a non-empty state, from a
\* history that had already dropped an older turn.
C14_Witness ==
    \E c \in Callers :
        /\ ReadOwnSave(c)
        /\ Truthy(sProcs[c].context)
        /\ sMax >= 1
        /\ Len(sWrites) > sMax
        /\ Len(sProcs[c].got) = sMax
        /\ DOMAIN sProcs[c].got[Len(sProcs[c].got)].f["context_snapshot"].f
               # {}

\* The entry a caller's current save_conversation call appends.
EntryOf(c) ==
    conversation_entry(sProcs[c].args.user_query,
                       sProcs[c].args.agent_response,
                       sProcs[c].args.agent_log, sProcs[c].context)

\* The caller whose write is the latest one to the session file.
LatestWriter(c) ==
    /\ sProcs[c].result
    /\ sProcs[c].wrote_at > 0
    /\ sProcs[c].wrote_at = Len(sWrites)

\* C19: concurrent save_conversation executions on one session are not
\* mutually excluded.  The file left by a write is the history its own
\* load returned plus its own turn, whatever was written to the session
\* between that load and the write; a turn saved in between is lost
\* although its save_conversation returned True.
C19_LostUpdate ==
    \A c \in Callers :
        LatestWriter(c) =>
            StoredHistory =
                CapHistory(
                    Append(sProcs[c].session_data.f["conversation_history"]
                               .items,
                           EntryOf(c)),
                    sMax)

\* Both callers' save_conversation returned True, the maximum leaves room
\* for both turns, and the file holds only one of them.
C19_Witness ==
    \E c, d \in Callers :
        /\ c # d
        /\ sMax = 2
        /\ Len(sWrites) = 2
        /\ LatestWriter(c)
        /\ sProcs[c].stale
        /\ sProcs[d].result
        /\ sProcs[d].wrote_at = 1
        /\ sWrites[1] = EntryOf(d)
        /\ StoredHistory = <<EntryOf(c)>>

RECURSIVE FirstSuccessorAfter(_, _, _)
\* The stage reached from `agent` by n first-successor steps, "none" when
\* the chain ends earlier.
FirstSuccessorAfter(next_agent, agent, n) ==
    IF n = 0 \/ agent = "none" THEN agent
    ELSE FirstSuccessorAfter(next_agent,
                             ConfiguredNextAgent(next_agent, agent), n - 1)

UnknownSuccessor(next_agent) ==
    \E agent \in StageSet :
        /\ next_agent[agent] # <<>>
        /\ ConfiguredNextAgent(next_agent, agent) = "none"

CyclicChain(next_agent) ==
    \E agent \in StageSet, n \in 1..Cardinality(StageSet) :
        FirstSuccessorAfter(next_agent, agent, n) = agent

\* C16: configuration fails fast.  A configuration with a successor id
\* that names no registered stage, or with a cycle in its first-successor
\* chain, is never accepted when the agent manager is built.
C16_ConfigFailsFast ==
    cfg.accepted =>
        /\ ~UnknownSuccessor(cfg.next_agent)
        /\ ~CyclicChain(cfg.next_agent)

\* C18: infrastructure failure aborts the turn.  When a session store
\* operation of a turn (load, create, history read or save) has failed,
\* the turn's stream ends with the 'error' marker, holds no 'complete'
\* marker, and the error-state marker write has been attempted.
C18_StoreFailureAborts ==
    (ch.pc = "done" /\ ch.store_faults # {}) =>
        /\ ch.out # <<>>
        /\ ch.out[Len(ch.out)] = ErrorMessage
        /\ \A i \in 1..Len(ch.out) : ch.out[i] # CompleteMessage
        /\ ch.recovery

\* C15: an unparseable stage output is not retried and does not stop the
\* chain.  When the rewriting stage's model call returned text that is not
\* JSON and no call of the stage raised, the stage made that one call, its
\* output is the default structured output, and the preprocessing stage
\* has been invoked by the time the workflow has returned.
C15_UnparsedOutputContinues ==
    (/\ "rewriting" \in wf.parse_failed
     /\ "rewriting" \notin wf.failed
     /\ wf.pc \in {"stream", "done"}) =>
        /\ wf.process_calls["rewriting"] = 1
        /\ wf.outputs["rewriting"]["rewritten_text"] = InitialInput["query"]
        /\ wf.execute_calls["preprocessing"] >= 1

\* C20: the background compaction task of a turn is started only after
\* the turn has completed, its response streamed and its turn persisted.
C20_CompactionAfterTurn ==
    OptimizeStarted => wf.pc = "done"

\* A stream as far as it has been emitted: response chunks only, except
\* that the last message may be a terminal marker; a finished turn's
\* stream ends with one.
WellFormedStream(out, finished) ==
    /\ \A i \in 1..Len(out) : out[i].type \in {"response", "complete", "error"}
    /\ \A i \in 1..(Len(out) - 1) : out[i].type = "response"
    /\ finished =>
          /\ out # <<>>
          /\ out[Len(out)].type \in {"complete", "error"}

\* C17: every turn's output stream is zero or more 'response' chunks
\* followed by exactly one terminal marker, 'complete' or 'error', with
\* nothing after it, whatever stages fail and whatever the session store
\* does; this holds for process_chat of both program versions.
C17_StreamShape ==
    /\ WellFormedStream(ch.out, ch.pc = "done")
    /\ WellFormedStream(wf.out, wf.pc = "done")

\* Finished turns of each kind have been seen: 'error' alone, and chunks
\* followed by 'complete' after a failed store operation and a stage
\* that ran out of attempts.
C17_Witness ==
    \/ /\ ch.pc = "done"
       /\ ch.out = <<ErrorMessage>>
    \/ /\ ch.pc = "done"
       /\ Len(ch.out) > 1
       /\ ch.out[Len(ch.out)] = CompleteMessage
       /\ ch.store_faults # {}
       /\ ch.degraded # {}
    \/ /\ wf.pc = "done"
       /\ Len(wf.out) > 1
       /\ wf.out[Len(wf.out)] = CompleteMessage
       /\ wf.workflow_raised

StageNamed(id) ==
    IF id \in StageSet THEN id
    ELSE CASE id = "rewriting_agent" -> "rewriting"
           [] id = "preprocessing_agent" -> "preprocessing"
           [] id = "supervisor_agent" -> "supervisor"
           [] id = "domain_agent" -> "domain"
           [] OTHER -> "none"

\* C22: linear routing.  Every hop of the chain goes to the stage named
\* by the first entry of the current stage's successor list, never to a
\* stage named only by a later entry; the chain ends at a stage whose
\* list is empty, or whose first entry names no stage.
C22_LinearRouting ==
    /\ (cfg.pc = "walk" /\ cfg.routed_from # "none") =>
           /\ cfg.next_agent[cfg.routed_from] # <<>>
           /\ cfg.current = StageNamed(cfg.next_agent[cfg.routed_from][1])
    /\ cfg.pc = "walked" =>
           \/ cfg.next_agent[cfg.current] = <<>>
           \/ StageNamed(cfg.next_agent[cfg.current][1]) = "none"

\* A hop was made from a stage whose two successor entries name
\* different stages, to a stage with an empty list, where the chain ends.
C22_Witness ==
    /\ cfg.pc = "walk"
    /\ cfg.routed_from # "none"
    /\ Len(cfg.next_agent[cfg.routed_from]) = 2
    /\ StageNamed(cfg.next_agent[cfg.routed_from][2]) \in StageSet \ {cfg.current}
    /\ cfg.next_agent[cfg.current] = <<>>

\* The input a stage was invoked with holds the turn's conversation history
\* and current state as the original turn input had them.
CarriesTurnContext(input) ==
    /\ "conversation_context" \in DOMAIN input
    /\ input["conversation_context"] = InitialInput["conversation_context"]
    /\ "current_state" \in DOMAIN input
    /\ input["current_state"] = InitialInput["current_state"]

\* C23: on every hop of the chain (rewriting -> preprocessing,
\* preprocessing -> supervisor, supervisor -> domain) the input built for
\* the next stage contains the turn's conversation history and current
\* state unchanged from the original turn input.
C23_ContextCarriedForward ==
    \A i \in 1..Len(wfStack) :
        wfStack[i].agent \in {"preprocessing", "supervisor", "domain"} =>
            CarriesTurnContext(wfStack[i].input)

\* The same for the first two hops only.
ContextCarriedBeforeDomain ==
    \A i \in 1..Len(wfStack) :
        wfStack[i].agent \in {"preprocessing", "supervisor"} =>
            CarriesTurnContext(wfStack[i].input)

\* The entries a stage's _update_context left in the shared context.
HistoryEntriesOf(agent) ==
    Cardinality({i \in 1..Len(wf.status_history) :
                    wf.status_history[i][1] = agent})

\* The context inside the result is what a run without failed attempts
\* leaves: one status_history / agent_call_history entry per execute call
\* of the supervisor and of the domain stage.
ContextAsFirstAttemptRun ==
    \A a \in {"supervisor", "domain"} :
        HistoryEntriesOf(a) = wf.execute_calls[a]

\* C24: retries are transparent: when a stage's model call fails on
\* attempts 1..k (k < maxAttempts) and then succeeds, the final result,
\* including the context carried inside it (status_history,
\* agent_call_history), is that of a run whose first attempts succeeded.
C24_RetriesTransparent ==
    (wf.pc \in {"stream", "done"} /\ wf.exhausted = {} /\ wf.out # <<ErrorMessage>>) =>
        ContextAsFirstAttemptRun

\* Without a failed attempt the context is that of the first-attempt run.
ContextOfFailureFreeRun ==
    (wf.pc \in {"stream", "done"} /\ wf.failed = {} /\ wf.out # <<ErrorMessage>>) =>
        ContextAsFirstAttemptRun

\* The outputs _parse_json_response hands to the conditional routing.
ParsedRewritingOutputs ==
    {_parse_json_response(r, InitialInput) : r \in LlmResponses("rewriting")}

\* C25: _handle_conditional_routing sets should_skip_next_agent = true and
\* a non-empty direct_response whenever the stage output has topic
\* 'general' or is_general true (also when the direct-answer model call
\* fails or no response prompt is configured); every other output is left
\* as it was, without should_skip_next_agent and with no direct_response
\* set.
C25_ConditionalRouting ==
    LET out == wf.outputs["rewriting"]
    IN  wf.process_calls["rewriting"] > 0 /\ out # <<>> =>
            IF out["topic"] = "general" \/ Get(out, "is_general", FALSE)
            THEN /\ "should_skip_next_agent" \in DOMAIN out
                 /\ out["should_skip_next_agent"] = TRUE
                 /\ "direct_response" \in DOMAIN out
                 /\ out["direct_response"] # <<>>
            ELSE /\ "should_skip_next_agent" \notin DOMAIN out
                 /\ out \in ParsedRewritingOutputs

\* A non-general topic flagged is_general, answered directly although the
\* direct-answer model call failed.
C25_Witness ==
    LET out == wf.outputs["rewriting"]
    IN  /\ out # <<>>
        /\ out["topic"] = "account"
        /\ Get(out, "is_general", FALSE)
        /\ Get(out, "should_skip_next_agent", FALSE)
        /\ out["direct_response"] = DirectErrorText
        /\ wf.response_prompt

\* The record load_session returns for the session of the last call, before
\* and after the call.
RecordBefore == load_session(FileBefore(api.session_id), TRUE)
RecordAfter == load_session(SessionFile(api.session_id), TRUE)

\* C26: session lifecycle.  After create_session(id, info) succeeds,
\* load_session(id) returns a record with that session_id, customer_info
\* equal to info (an empty record when no info was given), an empty
\* history and a zero-valued context; after delete_session(id) succeeds,
\* load_session(id) returns no record and a second delete_session(id)
\* returns False.
C26_SessionLifecycle ==
    /\ (api.op = "create_session" /\ api.result) =>
           /\ RecordAfter.t = "dict"
           /\ RecordAfter.f["session_id"] = JStr(api.session_id)
           /\ RecordAfter.f["customer_info"] =
                  (IF api.arg.t = "dict" THEN api.arg ELSE PyDict(<<>>))
           /\ RecordAfter.f["conversation_history"] = PyList(<<>>)
           /\ RecordAfter.f["current_context"] = ZeroContext(0)
    /\ (api.op = "delete_session" /\ api.result) =>
           /\ RecordAfter = JNull
           /\ ~delete_session(SessionFile(api.session_id), TRUE).result

\* A session created with customer data in this run, then deleted.
C26_Witness ==
    /\ api.op = "delete_session" /\ api.result
    /\ api.calls = 2
    /\ RecordBefore.t = "dict"
    /\ RecordBefore.f["customer_info"] = KimInfo
    /\ RecordBefore.f["conversation_history"] = PyList(<<>>)
    /\ ~SessionFile(api.session_id).exists

\* C27: get_conversation_history(session, limit) with limit >= 1 returns
\* at most limit turns, namely the most recently saved ones in their saved
\* order (most recent last); for a session with at least one saved turn
\* the result is non-empty; for a session with no record it returns the
\* empty list.
C27_HistoryLimit ==
    (api.op = "get_conversation_history" /\ api.io_ok /\ api.arg >= 1) =>
        LET got == api.result
            turns == api.turns[api.session_id]
        IN  /\ Len(got) <= api.arg
            /\ Len(got) <= Len(turns)
            /\ \A i \in 1..Len(got) :
                   got[i] = turns[Len(turns) - Len(got) + i]
            /\ Len(got) = Min(api.arg, Min(Len(turns), sMax))
            /\ turns # <<>> => got # <<>>
            /\ ~SessionFile(api.session_id).exists => got = <<>>

\* A limit below the number of stored turns: only the latest is returned.
C27_Witness ==
    /\ api.op = "get_conversation_history" /\ api.io_ok
    /\ api.arg = 1
    /\ Len(api.turns[api.session_id]) = 3
    /\ api.result =
           <<api.turns[api.session_id][Len(api.turns[api.session_id])]>>

\* C28: update_context(s, u) overlays u onto the session's
\* current_context: keys in u take the new value, all other context keys,
\* the conversation history and customer_info are unchanged, and
\* get_current_context(s) then returns the updated values;
\* clear_context(s) resets current_context to the zero state and leaves
\* the conversation history unchanged.
C28_ContextOverlay ==
    /\ (api.op = "update_context" /\ api.result) =>
           LET old == RecordBefore.f["current_context"].f
               new == get_current_context(SessionFile(api.session_id), TRUE)
           IN  /\ new.t = "dict"
               /\ DOMAIN new.f = DOMAIN old \cup DOMAIN api.arg
               /\ \A key \in DOMAIN api.arg : new.f[key] = api.arg[key]
               /\ \A key \in DOMAIN old \ DOMAIN api.arg :
                      new.f[key] = old[key]
               /\ RecordAfter.f["conversation_history"]
                      = RecordBefore.f["conversation_history"]
               /\ RecordAfter.f["customer_info"]
                      = RecordBefore.f["customer_info"]
    /\ (api.op = "clear_context" /\ api.result) =>
           /\ get_current_context(SessionFile(api.session_id), TRUE) = ZeroContext(0)
           /\ RecordAfter.f["conversation_history"]
                  = RecordBefore.f["conversation_history"]

\* An update that adds a key and nulls another on a session whose context
\* holds values from a saved turn.
C28_Witness ==
    /\ api.op = "update_context" /\ api.result
    /\ "note" \in DOMAIN api.arg
    /\ RecordBefore.f["current_context"].f["last_intent"] = JStr("transfer")
    /\ RecordAfter.f["current_context"].f["last_intent"] = JStr("transfer")
    /\ RecordAfter.f["current_context"].f["note"] = JStr("callback")
    /\ RecordAfter.f["conversation_history"].items # <<>>

\* The stages in chain order and the output fields the result must hold.
ChainOrder == <<"rewriting", "preprocessing", "supervisor", "domain">>

ResultFields ==
    {"rewritten_text", "topic", "context_used", "normalized_text", "intent",
     "slot", "target_domain", "tool_name", "tool_output"}

\* The last stage in chain order whose output has the key.
LastStageWith(key) ==
    ChainOrder[CHOOSE i \in 1..4 :
                  /\ key \in DOMAIN wf.outputs[ChainOrder[i]]
                  /\ \A k \in (i + 1)..4 :
                         key \notin DOMAIN wf.outputs[ChainOrder[k]]]

\* C29: for a chain that runs through its last stage, execute_workflow
\* returns the merge of all stage outputs in chain order (on a key
\* collision the later stage's value wins), so the result contains every
\* stage's output fields: rewritten_text, topic, context_used,
\* normalized_text, intent, slot, target_domain, tool_name and tool_output.
C29_WorkflowResult ==
    (WorkflowFinished /\ ~wf.workflow_raised /\ wf.outputs["domain"] # <<>>) =>
        /\ DOMAIN wf.final_result =
               UNION {DOMAIN wf.outputs[a] : a \in StageSet}
        /\ \A key \in DOMAIN wf.final_result :
               wf.final_result[key] = wf.outputs[LastStageWith(key)][key]
        /\ ResultFields \subseteq DOMAIN wf.final_result

\* A finished chain in which a stage had to retry and whose result takes
\* normalized_text from the supervisor and tool_output from the domain
\* stage.
C29_Witness ==
    /\ WorkflowFinished /\ ~wf.workflow_raised
    /\ wf.outputs["domain"] # <<>>
    /\ wf.failed # {}
    /\ wf.final_result["tool_output"] = wf.outputs["domain"]["tool_output"]
    /\ wf.final_result["rewritten_text"]
           = wf.outputs["rewriting"]["rewritten_text"]
    /\ wf.outputs["rewriting"]["context_used"]
    /\ ~wf.final_result["context_used"]

\* The turns that hold a context dictionary.
TurnsInFlight == {t \in TurnIds : api.turn_ref[t] # 0}

\* C30: session isolation.  The operations of a turn on session A
\* (create_session, save_conversation, update_context, clear_context,
\* compaction) never modify the persisted record of a different session
\* B, and the execution context of a turn is never shared with another
\* in-flight turn, under any interleaving of concurrent turns.
C30_SessionIsolation ==
    /\ api.op # "none" =>
           \A sid \in SessionIds \ {api.session_id} :
               SessionFile(sid) = FileBefore(sid)
    /\ \A t, u \in TurnsInFlight :
           t # u => api.turn_ref[t] # api.turn_ref[u]
    /\ api.op \in {"process_chat", "_update_context"} =>
           \A t \in TurnsInFlight \ {api.arg} :
               api.contexts[api.turn_ref[t]]
                   = api.before_contexts[api.turn_ref[t]]

\* A turn on session A wrote its own record while session B holds saved
\* turns and a turn on B is in flight.
C30_Witness ==
    /\ api.op \in {"save_conversation", "create_session", "update_context",
                    "clear_context", "optimize_session_file"}
    /\ api.session_id = "A" /\ api.result
    /\ SessionFile("A") # FileBefore("A")
    /\ SessionFile("B").exists
    /\ load_session(SessionFile("B"), TRUE).f["conversation_history"].items
           # <<>>
    /\ api.turn_ref[1] # 0 /\ api.turn_ref[2] # 0
    /\ api.contexts[api.turn_ref[1]].session_id = "A"

\* The conversation_depth of the persisted current_context.
StoredDepth(file) ==
    load_session(file, TRUE).f["current_context"].f["conversation_depth"].n

\* C31: turn depth is monotonically increasing.  Within a turn the depth
\* grows by exactly one for each stage result applied to the context, and
\* the conversation_depth persisted by a completed turn is greater than
\* the one persisted by the previous completed turn of the session, for
\* any number of turns (here: in runs without a store failure).
C31_DepthMonotonic ==
    [][/\ (ch.pc \in StageSet /\ ch'.pc # ch.pc) =>
              ch'.context["depth"].n = ch.context["depth"].n + 1
       /\ (/\ ch.pc = "stream" /\ ch'.pc = "done"
           /\ ch.turn > 1 /\ ch.previous.saved /\ ch'.saved
           /\ ch'.faults_total = 0) =>
              StoredDepth(store') > StoredDepth(store)]_vars

\* Within a turn every applied stage result adds one to the depth.
DepthStepsByOne ==
    [][(ch.pc \in StageSet /\ ch'.pc # ch.pc) =>
           ch'.context["depth"].n = ch.context["depth"].n + 1]_vars

\* The run of execute on an input that violates the input schema: every
\* attempt fails in _validate_input, a backoff sleep separates two
\* attempts, _process is never reached and the error is raised.
ValidationErrorRun ==
    /\ Len(RetryFails) = rPolicy.max_retries
    /\ \A i \in 1..Len(rTrace) : rTrace[i].step \in {"validate_input", "sleep"}
    /\ Len(RetrySleeps) = Len(RetryFails) - 1
    /\ \A n \in 1..Len(RetrySleeps) :
           /\ rTrace[2 * n].e = "sleep"
           /\ rTrace[2 * n].d = BackoffDelay(rPolicy, n - 1)
    /\ rOutcome = [kind |-> "error", err |-> rPolicy.max_retries]

\* C32: any error counts as a failed attempt, validation and empty-result
\* errors included.  For an input that violates the input schema execute
\* performs max_retries attempts separated by the backoff delays, never
\* runs the stage's process step and finally raises the validation error.
C32_ValidationRetried ==
    (rPc = "returned" /\ ~rInputOk) => ValidationErrorRun

\* The same for the policies that make at least one attempt.
ValidationRetriedWhenAttempted ==
    (rPc = "returned" /\ ~rInputOk /\ rPolicy.max_retries >= 1) =>
        ValidationErrorRun

\* An attempt whose _process raised (the empty model answer of _call_llm
\* among the causes) is followed by a sleep and the next attempt, or is
\* the last one and its error is raised.
ProcessErrorRetried ==
    \A i \in 1..Len(rTrace) :
        (rTrace[i].e = "fail" /\ rTrace[i].step = "process") =>
            IF rTrace[i].n < rPolicy.max_retries
            THEN i < Len(rTrace) =>
                     /\ rTrace[i + 1].e = "sleep"
                     /\ rTrace[i + 1].d = BackoffDelay(rPolicy, rTrace[i].n - 1)
            ELSE /\ i = Len(rTrace)
                 /\ rPc = "returned" /\ rOutcome.kind = "error"

\* C33: a turn emits the 'complete' marker only after its conversation
\* entry has been appended to the session history, also when the store
\* fails while the turn is in flight.
C33_CompleteAfterPersisted ==
    (ch.pc = "done" /\ ch.out # <<>> /\ ch.out[Len(ch.out)] = CompleteMessage) =>
        LET history == get_conversation_history(store, 1, TRUE)
        IN  /\ ch.saved
            /\ history # <<>>
            /\ history[1].f["agent_response"] = JStr(ch.final_response)

\* When save_conversation returned True the entry of the turn is the last
\* one of the stored history.
SavedTurnIsStored ==
    (ch.pc = "done" /\ ch.saved) =>
        LET history == get_conversation_history(store, 1, TRUE)
        IN  /\ history # <<>>
            /\ history[1].f["agent_response"] = JStr(ch.final_response)

\* C34: in a turn whose chain was not short-circuited by the first stage
\* (should_skip_next_agent not set) the final response is rendered from
\* the last stage's tool output; process_chat takes the direct_response
\* branch only when the first stage terminated the chain.
C34_DirectBranchOnlyWhenTerminated ==
    (WorkflowFinished /\ ~wf.workflow_raised /\ ~RewritingTerminates
       /\ wf.outputs["domain"] # <<>>) =>
        /\ wf.domain_result = wf.final_result
        /\ Get(wf.domain_result, "tool_name", "") # "direct_response"
        /\ wf.final_response =
               generate_response(wf.outputs["domain"]["tool_name"],
                                 wf.outputs["domain"]["tool_output"],
                                 wf.customer_info, "none")

\* When the rewriting answer carries no direct_response text, the final
\* response of a full chain is rendered from the domain stage's output.
FullChainRendersToolOutput ==
    (WorkflowFinished /\ ~wf.workflow_raised /\ ~RewritingTerminates
       /\ wf.outputs["domain"] # <<>>
       /\ Get(wf.outputs["rewriting"], "direct_response", <<>>) = <<>>) =>
        /\ wf.domain_result = wf.final_result
        /\ wf.final_response =
               generate_response(wf.outputs["domain"]["tool_name"],
                                 wf.outputs["domain"]["tool_output"],
                                 wf.customer_info, "none")

\* The agent_log of the latest entry, when it is a string.
LatestLog ==
    IF xHistory # <<>> /\ LatestEntry.t = "dict"
       /\ "agent_log" \in DOMAIN LatestEntry.f
       /\ LatestEntry.f["agent_log"].t = "str"
    THEN LatestEntry.f["agent_log"]
    ELSE LogText(<<>>)

\* The payload after the first occurrence of the marker is not valid JSON.
MarkerMalformed(marker) ==
    /\ HasMarker(LatestLog, marker)
    /\ FindPayload(LatestLog, marker).j = "invalid"

\* The Domain marker is well formed and its tool_output names an account.
DomainAccountTaken ==
    /\ HasMarker(LatestLog, DomainMarker)
    /\ FindPayload(LatestLog, DomainMarker) \in
           {ValidJson(PyDict([tool_output |-> o])) :
               o \in {t \in ToolOutputs :
                         t.t = "dict" /\ "account_number" \in DOMAIN t.f}}

\* C35: marker extraction is all-or-nothing after the first failure.  A
\* Domain marker whose payload is not valid JSON ends the extraction:
\* selected_account, last_intent and last_slots are all left at zero, also
\* when the same trace holds a well-formed Preprocessing marker.  A
\* malformed Preprocessing marker leaves last_intent and last_slots at zero
\* and keeps a selected_account taken from a well-formed Domain marker.
C35_ExtractionStopsAtFirstFailure ==
    xPc = "done" =>
        /\ MarkerMalformed(DomainMarker) =>
               xRaised = "none" /\ xState = ZeroState
        /\ (DomainAccountTaken /\ MarkerMalformed(PrepMarker)) =>
               /\ xRaised = "none"
               /\ xState =
                      [ZeroState EXCEPT !.selected_account =
                          FindPayload(LatestLog, DomainMarker)
                              .v.f["tool_output"].f["account_number"]]

\* A malformed Domain marker beside a well-formed Preprocessing marker
\* with an intent: nothing was extracted.
C35_Witness ==
    /\ xPc = "done"
    /\ MarkerMalformed(DomainMarker)
    /\ HasMarker(LatestLog, PrepMarker)
    /\ FindPayload(LatestLog, PrepMarker) =
           ValidJson(PyDict([intent |-> JStr("check_balance"),
                             slot |-> PyList(<<JStr("account")>>)]))
    /\ xState = ZeroState

\* A malformed Preprocessing marker after a well-formed Domain marker: the
\* account is kept, intent and slots are at zero.
MalformedPrepKeepsAccount ==
    /\ xPc = "done"
    /\ DomainAccountTaken /\ MarkerMalformed(PrepMarker)
    /\ xState.selected_account = JStr("110-1")
    /\ xState.last_intent = JNull

\* The current_context of the persisted record.
StoredContext(file) == load_session(file, TRUE).f["current_context"].f

\* C36: the fatal-error path.  When a turn fails with an exception that
\* reaches the outer handler after its context was built, nothing is
\* appended to the session history, error_recovery = true is written into
\* the session's current_context (when the store carries out the write)
\* and exactly one 'error' marker is emitted; the next turn of the session
\* that completes successfully replaces current_context, so that the
\* error marker is no longer present.
C36_FatalErrorPath ==
    [][/\ (ch.pc \in StageSet /\ ch'.pc = "done") =>
              /\ get_conversation_history(store', 0, TRUE)
                     = get_conversation_history(store, 0, TRUE)
              /\ "recovery" \notin ch'.store_faults =>
                     /\ "error_recovery" \in DOMAIN StoredContext(store')
                     /\ StoredContext(store')["error_recovery"] = JTrue
              /\ ch'.out = Append(ch.out, ErrorMessage)
              /\ Len(SelectSeq(ch'.out, LAMBDA msg : msg.type = "error")) = 1
              /\ \A i \in 1..Len(ch'.out) : ch'.out[i] # CompleteMessage
       /\ (ch.pc = "stream" /\ ch'.pc = "done" /\ ch'.saved) =>
              "error_recovery" \notin DOMAIN StoredContext(store')]_vars

\* A turn ended on the fatal path after one stage result: the marker is in
\* the stored context and the stream is the 'error' marker alone.
C36_Witness ==
    /\ ch.pc = "done" /\ ch.recovery
    /\ ch.results["rewriting"] # <<>>
    /\ ch.out = <<ErrorMessage>>
    /\ store.exists
    /\ "error_recovery" \in DOMAIN StoredContext(store)

\* A turn in flight on a session whose stored context carries the marker
\* of the turn before it.
TurnAfterFatalInFlight ==
    /\ ch.turn > 1 /\ ch.pc = "stream"
    /\ store.exists
    /\ "error_recovery" \in DOMAIN StoredContext(store)

\* C37: turn initialisation never resets an existing session.
\* create_session is invoked by process_chat only when no record for the
\* session exists, so the turns already persisted for a session are never
\* erased by a later turn's initialisation, also when load_session fails
\* to read an existing record.
C37_InitKeepsSession ==
    [][(ch.pc = "start" /\ ch'.pc # "start") =>
           /\ store.exists => store' = store
           /\ get_conversation_history(store', 0, TRUE)
                  = get_conversation_history(store, 0, TRUE)]_vars

\* When load_session reads the record, the initialisation leaves it as it
\* is.
InitKeepsReadableSession ==
    [][(ch.pc = "start" /\ ch'.pc # "start" /\ store.exists
          /\ "load" \notin ch'.store_faults) =>
           store' = store]_vars

\* The turns of a history, as (user_query, agent_response) pairs.
TurnsOf(history) ==
    [i \in 1..Len(history) |->
        <<history[i].f["user_query"], history[i].f["agent_response"]>>]

RecentTurns(file) ==
    TurnsOf(LastItems(get_conversation_history(file, 0, TRUE), sMax))

\* C38: compaction only trims the oldest entries.  A write of
\* optimize_session_file (compress or cleanup) never removes or reorders
\* any of the most recent max_history persisted turns and never changes
\* their user_query or agent_response, in any interleaving with
\* save_conversation on the same session.
C38_CompactionKeepsRecent ==
    [][(opt.pc = "loaded" /\ opt'.pc = "idle") =>
           RecentTurns(store') = RecentTurns(store)]_vars

\* A compaction whose read is still the content of the file when it
\* writes keeps the recent turns.
UninterruptedCompactionKeepsRecent ==
    [][(opt.pc = "loaded" /\ opt'.pc = "idle" /\ opt.read = store) =>
           RecentTurns(store') = RecentTurns(store)]_vars

====
